---- MODULE Spec2Model ----
(***************************************************************************)
(* State-machine model of the neds_sdr streaming core: RTL_TCP_Client,     *)
(* fm_demodulate, SquelchGate, ToneDetector, AudioOutput, Channel,         *)
(* SDRReceiver (with its acquisition loop _rx_loop) and ChannelsManager.   *)
(*                                                                         *)
(* asyncio is cooperative: a coroutine runs without interruption from one  *)
(* suspension point (an await that really suspends: open_connection,       *)
(* drain, sleep, readexactly, wait_closed, awaiting a task) to the next.   *)
(* Every action below is one such uninterrupted run of one task.           *)
(***************************************************************************)
EXTENDS Integers, Sequences, FiniteSets, TLC

VARIABLES
    gate,       \* a stand-alone SquelchGate instance
    gateLog,    \* the <<power, returned state>> of each update call on it
    chan,       \* heap of Channel objects, in order of construction
    channels,   \* SDRReceiver.channels: the object indices, in dict order
    running,    \* SDRReceiver.running
    connected,  \* RTL_TCP_Client.connected
    sock,       \* RTL_TCP_Client.reader/writer and the state of their transport
    wire,       \* frames written: <<opcode, value, accepted by transport, bytes>>
    gen,        \* number of connections opened so far by the client
    rx_task,    \* SDRReceiver._rx_task: a task id, 0 for None
    task,       \* the asyncio tasks: callers of operations, acquisition loops
    cpu,        \* the task now running between two suspension points, or 0
    events,     \* EventBus.emit calls so far, counted per event type
    nblk,       \* number of IQ blocks read so far by acquisition loops
    nops,       \* number of operations invoked so far
    disconnected, \* a disconnect() has returned and connect() was not called since
    last,       \* the call made by the latest step (for stating the claims)
    demod,      \* fm_demodulate on its own: two consecutive blocks and the
                \* outputs of demodulating them in three ways
    detector,   \* a stand-alone ToneDetector instance
    matchLog,   \* the <<audio block, result>> of each match call on it
    bus,        \* a stand-alone EventBus with its subscribers, and what its
                \* latest emit did
    managers,   \* the ChannelsManager of each receiver of a DeviceManager
    files,      \* the preset files on disk, by path
    status      \* DeviceManager.tcp_servers[port]["status"] of the receiver's
                \* server, "none" while it has no entry

vars == <<gate, gateLog, chan, channels, running, connected, sock, wire,
          gen, rx_task, task, cpu, events, nblk, nops, disconnected, last,
          demod, detector, matchLog, bus, managers, files, status>>

\* the parts exercised on their own, outside a receiver
aloneVars == <<demod, detector, matchLog, bus, managers, files, status>>

-----------------------------------------------------------------------------
\* Bounds of the model.

\* update calls on the stand-alone gate
MaxCalls == 4
\* process_samples calls made directly on one Channel
MaxProcess == 3
\* IQ blocks read by the acquisition loops
MaxBlocks == 2
\* channel operations invoked on a streaming receiver
MaxOps == 3
\* operations invoked in a life cycle of the receiver
MaxLifeOps == 2
\* channel operations invoked while the connection is being lost
MaxLossOps == 2
\* calls made on the client that is being closed
MaxCloses == 3
\* set_channel calls made by the concurrent tasks
MaxTunes == 3
\* blocks the loop feeds to a tone channel
MaxToneBlocks == 4
\* calls made on the client whose commands may fail
MaxFails == 3
\* complex samples in a block handed to fm_demodulate on its own
MaxSamples == 3
\* match calls on the stand-alone detector
MaxMatches == 3
\* subscriptions made on the stand-alone event bus
MaxSubs == 3

-----------------------------------------------------------------------------
\* Program constants.

\* buffer_size of _rx_loop, in bytes (= float entries after conversion)
BufferSize == 16384
\* power reported by measure_power for an empty block
EmptyPower == -120
\* default hysteresis_db of SquelchGate
DefaultHysteresis == 2
\* ToneDetector.sample_rate
ToneSampleRate == 48000
\* SET_FREQUENCY, SET_SAMPLE_RATE, SET_GAIN_MODE, SET_GAIN opcodes
CmdSetFrequency == 1
CmdSetSampleRate == 2
CmdSetGainMode == 3
CmdSetGain == 4
CmdSetPpm == 5
\* SDRReceiver.sample_rate
SampleRate == 2048000

\* Python's None, where a string and where a number is expected
NoValue == "None"
NoNumber == -1

-----------------------------------------------------------------------------
\* Input domains.

\* measured powers (dBFS) of non-empty audio blocks
Powers == {-50, -48, -47, -46, -45, -44, -40}
Thresholds == {-45, -50}
Hystereses == {0, 2}
\* phase[-1] of a block; a new Channel carries prev_phase = 0
Phases == {1, 2}

\* An IQ block as seen by Channel.process_samples: size is iq.size (float
\* entries, interleaved I/Q); pwr is the power measure_power computes on the
\* demodulated block; hit tells whether the Goertzel magnitude of the trailing
\* window exceeds the detector's threshold; ph is the phase of the last sample.
IQ(size, pwr, hit, ph) == [size |-> size, pwr |-> pwr, hit |-> hit, ph |-> ph]

\* a demodulated audio block
Audio(size, pwr, hit) == [size |-> size, pwr |-> pwr, hit |-> hit]

-----------------------------------------------------------------------------
\* dsp/fm_demod.py

\* fm_demodulate(iq, prev_phase) -> <<demod, last_phase>>
fm_demodulate(iq, prev_phase) ==
    IF iq.size < 4
    THEN <<Audio(0, EmptyPower, FALSE), prev_phase>>
    ELSE <<Audio((iq.size \div 2) - 1, iq.pwr, iq.hit), iq.ph>>

\* Sample level.  A block is the sequence of the phases np.angle gives for
\* its complex samples, counted in quarter turns: pi is HalfTurn, and the
\* phases lie in -HalfTurn+1 .. HalfTurn.  interleaved tells whether the
\* block arrives as I/Q floats (iq.size is then twice the sample count)
\* or as complex64.
HalfTurn == 2
SamplePhases == (1 - HalfTurn)..HalfTurn

\* one term of np.diff(np.unwrap(phase)): the phase step brought into
\* [-pi, pi] (a step of exactly -pi or pi is left as it is)
unwrap_diff(d) ==
    IF d > HalfTurn THEN d - 2 * HalfTurn
    ELSE IF d < -HalfTurn THEN d + 2 * HalfTurn
    ELSE d

\* fm_demodulate on the samples: <<demod, last_phase>>.  np.clip to
\* [-pi, pi] changes nothing after unwrap_diff.
fm_demodulate_samples(phase, interleaved, prev_phase) ==
    LET size == IF interleaved THEN 2 * Len(phase) ELSE Len(phase) IN
    IF size < 4
    THEN <<<<>>, prev_phase>>
    ELSE <<[k \in 1..(Len(phase) - 1) |->
               unwrap_diff(phase[k + 1] - phase[k])],
           phase[Len(phase)]>>

-----------------------------------------------------------------------------
\* core/squelch.py

SquelchGate(threshold_db, hysteresis_db) ==
    [threshold_db |-> threshold_db, hysteresis_db |-> hysteresis_db,
     state_open |-> FALSE]

measure_power(samples) ==
    IF samples.size = 0 THEN EmptyPower ELSE samples.pwr

\* a gate with one threshold for both directions
update_single_threshold(g, samples) ==
    LET power_db == measure_power(samples) IN
    IF ~g.state_open /\ power_db > g.threshold_db
    THEN [g EXCEPT !.state_open = TRUE]
    ELSE IF g.state_open /\ power_db < g.threshold_db
    THEN [g EXCEPT !.state_open = FALSE]
    ELSE g

\* SquelchGate.update: the gate after the call (its state_open is returned)
update(g, samples) ==
    LET power_db == measure_power(samples) IN
    IF ~g.state_open /\ power_db > g.threshold_db
    THEN [g EXCEPT !.state_open = TRUE]
    ELSE IF g.state_open /\ power_db < (g.threshold_db - g.hysteresis_db)
    THEN [g EXCEPT !.state_open = FALSE]
    ELSE g

-----------------------------------------------------------------------------
\* core/tone_detector.py

ToneDetector(tone_type, tone_value) ==
    [tone_type |-> tone_type, tone_value |-> tone_value]

detect_ctcss(t, audio) ==
    LET window == (ToneSampleRate * 5) \div 10 IN
    IF audio.size = 0 \/ t.tone_value = NoNumber THEN FALSE
    ELSE IF audio.size < window THEN FALSE
    ELSE audio.hit

detect_dcs(t, audio) == TRUE

\* a match that wants the tone whatever the tone specification is
match_wants_tone(t, audio) == audio.size > 0 /\ audio.hit

match(t, audio) ==
    IF t.tone_type = "PL" THEN detect_ctcss(t, audio)
    ELSE IF t.tone_type = "DPL" THEN detect_dcs(t, audio)
    ELSE TRUE

-----------------------------------------------------------------------------
\* core/audio_output.py

\* pa: the PulseAudio handle is held (close drops it); writes: calls of
\* write so far; played: calls of write that carried a non-empty block
AudioOutput(sink_name) ==
    [sink_name |-> sink_name, pa |-> TRUE, writes |-> 0, played |-> 0]

audio_write(a, audio) ==
    [a EXCEPT !.writes = @ + 1,
              !.played = IF audio.size = 0 THEN @ ELSE @ + 1]

audio_close(a) == [a EXCEPT !.pa = FALSE]

-----------------------------------------------------------------------------
\* core/channel.py

\* Channel.__init__.  History kept with the object: seen lists the numbers
\* of the blocks handed to its process_samples, faulted those on which the
\* call raised, since is the number of blocks read before it was registered.
Channel(id, frequency, squelch, tone_type, tone_value, sink) ==
    [id |-> id, frequency |-> frequency,
     squelch |-> SquelchGate(squelch, DefaultHysteresis),
     tone |-> ToneDetector(tone_type, tone_value),
     audio |-> AudioOutput(sink),
     prev_phase |-> 0, running |-> FALSE,
     seen |-> <<>>, faulted |-> <<>>, since |-> 0]

\* a stop that keeps the PulseAudio handle
stop_keep_sink(ch) == [ch EXCEPT !.running = FALSE]

\* Channel.stop
stop(ch) == [ch EXCEPT !.running = FALSE, !.audio = audio_close(@)]

\* the stages of process_samples in which a call may raise
Faults == {"none", "demod", "squelch", "tone"}

\* process_samples that writes the audio before consulting the gates
process_samples_ungated(ch, iq, fault) ==
    LET d  == fm_demodulate(iq, ch.prev_phase)
        c1 == [ch EXCEPT !.prev_phase = d[2]]
        c2 == [c1 EXCEPT !.squelch = update(@, d[1])]
    IN  IF fault = "demod" THEN ch
        ELSE IF fault = "squelch" THEN c1
        ELSE [c2 EXCEPT !.audio = audio_write(@, d[1])]

\* Channel.process_samples: the Channel after the call.  fault names the
\* stage that raises (the assignment of that stage is then not made).
process_samples(ch, iq, fault) ==
    LET d  == fm_demodulate(iq, ch.prev_phase)
        c1 == [ch EXCEPT !.prev_phase = d[2]]
        c2 == [c1 EXCEPT !.squelch = update(@, d[1])]
    IN  IF fault = "demod" THEN ch
        ELSE IF fault = "squelch" THEN c1
        ELSE IF ~c2.squelch.state_open THEN c2
        ELSE IF fault = "tone" THEN c2
        ELSE IF ~match(c2.tone, d[1]) THEN c2
        ELSE [c2 EXCEPT !.audio = audio_write(@, d[1])]

\* whether the call raises: the faulty stage is reached
raises(ch, iq, fault) ==
    LET d == fm_demodulate(iq, ch.prev_phase) IN
    \/ fault \in {"demod", "squelch"}
    \/ fault = "tone" /\ update(ch.squelch, d[1]).state_open

-----------------------------------------------------------------------------
\* core/event_bus.py

\* the event types and the callbacks of the stand-alone bus; the callbacks
\* in Raisers raise an Exception whenever they are called
BusEvents == {"signal_update", "channel_added"}
Callbacks == {1, 2, 3}
Raisers == {2}

\* EventBus.__init__; delivered lists the callbacks the latest emit called,
\* raised tells whether that emit raised to its caller
EventBus == [subscribers |-> [e \in BusEvents |-> <<>>],
             delivered |-> <<>>, raised |-> FALSE]

\* EventBus.subscribe
subscribe(b, event_type, cb) ==
    [b EXCEPT !.subscribers[event_type] = Append(@, cb)]

\* the callbacks called before and including the first that raises
RECURSIVE UpToRaiser(_)
UpToRaiser(cbs) ==
    IF cbs = <<>> THEN <<>>
    ELSE IF Head(cbs) \in Raisers THEN <<Head(cbs)>>
    ELSE <<Head(cbs)>> \o UpToRaiser(Tail(cbs))

\* an emit without the try around the callback
emit_all_unguarded(b, event_type) ==
    LET cbs == b.subscribers[event_type] IN
    [b EXCEPT !.delivered = UpToRaiser(cbs),
              !.raised = \E k \in 1..Len(cbs) : cbs[k] \in Raisers]

\* EventBus.emit: every callback subscribed to the event type is called in
\* list order, inside "try ... except Exception"
emit_all(b, event_type) ==
    [b EXCEPT !.delivered = b.subscribers[event_type], !.raised = FALSE]

-----------------------------------------------------------------------------
\* core/channels_manager.py: the preset records and their persistence

\* the receivers of one DeviceManager, and the paths of their preset files:
\* SDRReceiver.__init__ builds its ChannelsManager without a preset_file
\* argument, so each uses the default "channels.json"
Receivers == {1, 2}
PresetFiles == {"channels.json"}
preset_file(r) == "channels.json"

\* a preset dict is the set of its <<name, frequency>> items
SavedNames == {"a", "b"}
PresetFrequencies == {146000000, 162550000}

\* a receiver not constructed yet; a file that does not exist
NoManager == [built |-> FALSE, presets |-> {}, made |-> {}]
NoFile == [exists |-> FALSE, presets |-> {}]

\* self.presets[name] = {...}
put(presets, name, frequency) ==
    {p \in presets : p[1] # name} \cup {<<name, frequency>>}

\* del self.presets[name]
drop(presets, name) == {p \in presets : p[1] # name}

\* ChannelsManager.load_presets
load_presets(file) == IF file.exists THEN file.presets ELSE {}

\* ChannelsManager.save_presets
save_presets(presets) == [exists |-> TRUE, presets |-> presets]

-----------------------------------------------------------------------------
\* State after construction.

Tasks == {1, 2}

EventNames == {"opened", "closed", "signal_update", "channel_added",
               "channel_removed", "dongle_disconnected", "receiver_created",
               "receiver_connected", "channel_presets_updated"}

NoIQ == IQ(0, EmptyPower, FALSE, 0)

\* the call made by a step: operation, Channel object or task (0: none),
\* block, and fault injected (for a call or return: the operation's name)
Call(op, obj, iq, fault) == [op |-> op, obj |-> obj, iq |-> iq, fault |-> fault]

\* the argument of an operation: a channel id or preset name, a frequency
Arg(id, frequency) == [id |-> id, frequency |-> frequency]

\* a task: pc is the suspension point it waits at or the statement it runs
\* next, ret the statement to continue with after the suspension, obj the
\* Channel object (or awaited task) it holds, cancel a pending Task.cancel(),
\* gen the connection whose reader it reads from
Idle == [pc |-> "idle", ret |-> "idle", op |-> "none", arg |-> Arg(NoValue, 0),
         obj |-> 0, cancel |-> FALSE, gen |-> 0]

\* SDRReceiver.__init__ with its RTL_TCP_Client, ChannelsManager and EventBus
InitReceiver ==
    /\ channels = <<>>
    /\ running = FALSE
    /\ connected = FALSE
    /\ sock = "none"
    /\ wire = <<>>
    /\ gen = 0
    /\ rx_task = 0
    /\ cpu = 0
    /\ task = [t \in Tasks |-> Idle]
    /\ events = [e \in EventNames |-> 0]
    /\ nblk = 0
    /\ nops = 0
    /\ disconnected = FALSE
    /\ last = Call("init", 0, NoIQ, "none")

\* no demodulation made
NoDemod == [a |-> <<>>, b |-> <<>>, interleaved |-> FALSE, prev_phase |-> 0,
            carried |-> <<>>, joined |-> <<>>, reset |-> <<>>, done |-> {}]

\* nothing exercised on its own
InitAlone ==
    /\ demod = NoDemod
    /\ detector = ToneDetector(NoValue, NoNumber)
    /\ matchLog = <<>>
    /\ bus = EventBus
    /\ managers = [r \in Receivers |-> NoManager]
    /\ files = [f \in PresetFiles |-> NoFile]
    /\ status = "none"

\* a receiver without channels, and a SquelchGate built with its defaults
Init ==
    /\ gate = SquelchGate(-45, DefaultHysteresis)
    /\ gateLog = <<>>
    /\ chan = <<>>
    /\ InitReceiver
    /\ InitAlone

receiverVars == <<channels, running, connected, sock, wire, gen, rx_task,
                  task, cpu, events, nblk, nops, disconnected>>

-----------------------------------------------------------------------------
\* SquelchGate on its own: a gate with any threshold and hysteresis, fed a
\* sequence of blocks.

InitSquelch ==
    /\ \E t \in Thresholds, h \in Hystereses : gate = SquelchGate(t, h)
    /\ gateLog = <<>>
    /\ chan = <<>>
    /\ InitReceiver
    /\ InitAlone

GateUpdate(samples) ==
    /\ Len(gateLog) < MaxCalls
    /\ gate' = update(gate, samples)
    /\ gateLog' = Append(gateLog, <<measure_power(samples), gate'.state_open>>)
    /\ last' = Call("update", 0, NoIQ, "none")
    /\ UNCHANGED <<chan, receiverVars, aloneVars>>

NextSquelch ==
    \E size \in {0, 8191}, p \in Powers : GateUpdate(Audio(size, p, FALSE))

SpecSquelch == InitSquelch /\ [][NextSquelch]_vars

\* the state the gate was in before its i-th update
GateBefore(i) == IF i = 1 THEN FALSE ELSE gateLog[i - 1][2]

GatePowers == [i \in 1..Len(gateLog) |-> gateLog[i][1]]
GateStates == [i \in 1..Len(gateLog) |-> gateLog[i][2]]

\* C3: every update moves CLOSED to OPEN exactly when power > threshold and
\* OPEN to CLOSED exactly when power < threshold - hysteresis, leaves the
\* state alone otherwise, and the state persists between calls; with
\* threshold -45 and hysteresis 2 the powers [-50, -40, -44, -48] give
\* [CLOSED, OPEN, OPEN, CLOSED].
C3_SquelchTransitions ==
    /\ \A i \in 1..Len(gateLog) :
          LET before == GateBefore(i)
              power  == gateLog[i][1]
              after  == gateLog[i][2]
          IN  /\ ~before => (after <=> power > gate.threshold_db)
              /\ before => (~after <=>
                              power < gate.threshold_db - gate.hysteresis_db)
    /\ gate.state_open = GateBefore(Len(gateLog) + 1)
    /\ (/\ gate.threshold_db = -45
        /\ gate.hysteresis_db = 2
        /\ GatePowers = <<-50, -40, -44, -48>>)
       => GateStates = <<FALSE, TRUE, TRUE, FALSE>>

C3_Witness ==
    /\ gate.threshold_db = -45
    /\ gate.hysteresis_db = 2
    /\ GatePowers = <<-50, -40, -44, -48>>
    /\ ~gate.state_open

-----------------------------------------------------------------------------
\* One Channel driven directly, as src/test_process.py does: the Channel is
\* built on a receiver whose client never connected, so start sends nothing.

ToneSpecs == {<<NoValue, NoNumber>>, <<"PL", 100>>, <<"DPL", 23>>}

\* the blocks handed to the Channel: too small, loop-sized, two seconds long
DirectSizes == {2, BufferSize, 4 * BufferSize}
DirectPowers == {-50, -46, -40}
\* the squelch of the test, and the lowest the UI offers
DirectThresholds == {-45, -120}

InitChannel ==
    /\ gate = SquelchGate(-45, DefaultHysteresis)
    /\ gateLog = <<>>
    /\ \E tone \in ToneSpecs, squelch \in DirectThresholds :
          chan = <<Channel("ch_0", 158992500, squelch, tone[1], tone[2],
                           "test_sink")>>
    /\ InitReceiver
    /\ InitAlone

\* Channel.start with receiver.client.writer = None
DirectStart ==
    /\ chan' = [chan EXCEPT ![1].running = TRUE]
    /\ last' = Call("start", 1, NoIQ, "none")
    /\ UNCHANGED <<gate, gateLog, receiverVars, aloneVars>>

DirectStop ==
    /\ chan' = [chan EXCEPT ![1] = stop(@)]
    /\ last' = Call("stop", 1, NoIQ, "none")
    /\ UNCHANGED <<gate, gateLog, receiverVars, aloneVars>>

DirectProcess(iq) ==
    /\ Len(chan[1].seen) < MaxProcess
    /\ chan' = [chan EXCEPT
                  ![1] = [process_samples(@, iq, "none") EXCEPT
                             !.seen = Append(@, Len(@) + 1)]]
    /\ last' = Call("process_samples", 1, iq, "none")
    /\ UNCHANGED <<gate, gateLog, receiverVars, aloneVars>>

NextChannel ==
    \/ DirectStart
    \/ DirectStop
    \/ \E size \in DirectSizes, p \in DirectPowers, hit \in BOOLEAN,
          ph \in Phases : DirectProcess(IQ(size, p, hit, ph))

SpecChannel == InitChannel /\ [][NextChannel]_vars

\* the latest step was a process_samples call on object o
Processed(o) == last.op = "process_samples" /\ last.obj = o

Objects == 1..Len(chan)

\* C4 (as claimed): each CLOSED-to-OPEN transition of a Channel's gate
\* publishes exactly one "opened" event, each OPEN-to-CLOSED transition
\* exactly one "closed" event, and a call that leaves the gate alone
\* publishes nothing.
C4_EventPerTransition ==
    [][\A o \in Objects :
          LET before == chan[o].squelch.state_open
              after  == chan'[o].squelch.state_open
          IN  Processed(o)' =>
                /\ events'["opened"] =
                     events["opened"] + (IF ~before /\ after THEN 1 ELSE 0)
                /\ events'["closed"] =
                     events["closed"] + (IF before /\ ~after THEN 1 ELSE 0)]_vars

\* C5: a process_samples call hands the demodulated block to the sink's
\* write exactly when the squelch is open after its update and the tone
\* matches (the sink plays it unless the block is empty); a call that leaves
\* the gate closed writes nothing.
C5_WriteIffGateOpen ==
    [][\A o \in Objects :
          Processed(o)' =>
            LET audio == fm_demodulate(last'.iq, chan[o].prev_phase)[1]
                open  == /\ chan'[o].squelch.state_open
                         /\ match(chan[o].tone, audio)
            IN  /\ chan'[o].audio.writes =
                     chan[o].audio.writes + (IF open THEN 1 ELSE 0)
                /\ chan'[o].audio.played =
                     chan[o].audio.played
                       + (IF open /\ audio.size > 0 THEN 1 ELSE 0)
                /\ ~chan'[o].squelch.state_open =>
                     chan'[o].audio = chan[o].audio]_vars

\* a block was written, and later the gate closed on a block
C5_Witness ==
    /\ Processed(1)
    /\ chan[1].audio.played > 0
    /\ ~chan[1].squelch.state_open

\* C6 (as claimed): process_samples on a Channel that is not running changes
\* neither the squelch state nor the carried phase and writes nothing.
C6_StoppedIsNoOp ==
    [][\A o \in Objects :
          (Processed(o)' /\ ~chan[o].running) =>
            /\ chan'[o].squelch = chan[o].squelch
            /\ chan'[o].prev_phase = chan[o].prev_phase
            /\ chan'[o].audio = chan[o].audio]_vars

\* C22 (as claimed): process_samples with a block of fewer than 4 entries
\* on a RUNNING Channel leaves the carried phase and the squelch state as
\* they were and plays nothing, whatever the squelch state was before.
C22_SmallBlockIsNoOp ==
    [][\A o \in Objects :
          (Processed(o)' /\ chan[o].running /\ last'.iq.size < 4) =>
            /\ chan'[o].prev_phase = chan[o].prev_phase
            /\ chan'[o].squelch.state_open = chan[o].squelch.state_open
            /\ chan'[o].audio.played = chan[o].audio.played]_vars

-----------------------------------------------------------------------------
\* The receiver: core/rtl_tcp_client.py, core/receiver.py,
\* core/channels_manager.py, and the callers of their operations.

\* the gain the receiver was built with, in tenths of a dB (29.7 dB)
GainTenths == 297

\* ChannelsManager.presets as loaded from channels.json
PresetStore ==
    [a |-> [frequency |-> 146000000, squelch |-> -45, tone_type |-> NoValue,
            tone_value |-> NoNumber, sink |-> "default"],
     b |-> [frequency |-> 158992500, squelch |-> -50, tone_type |-> "PL",
            tone_value |-> 100, sink |-> "sink_b"]]

\* names passed to set_channel; "zz" is not a preset
PresetNames == {"a", "b", "zz"}

\* channel_config dictionaries passed to add_channel
AddConfigs == {Arg("a", 146000000), Arg("c", 162550000)}

\* ids passed to remove_channel
RemoveIds == {"a", "c"}

\* (channel, frequency) passed to DeviceManager.retune_channel
Retunes == {Arg("a", 162550000)}

\* powers of the blocks the tuner streams
LoopPowers == {-48, -40}

gateVars == <<gate, gateLog>>

Step == Call("step", 0, NoIQ, "none")

\* acquisition tasks have the ids 11, 12, ...; callers the ids below
RxTasks == {i \in DOMAIN task : i > 10}
Callers == {t \in DOMAIN task : t < 10}

\* the acquisition tasks that have not finished
LiveRx == {i \in RxTasks : task[i].pc # "done"}

\* the Channel object registered under id in receiver.channels, 0 if none
Lookup(id) ==
    IF \E k \in 1..Len(channels) : chan[channels[k]].id = id
    THEN channels[CHOOSE k \in 1..Len(channels) : chan[channels[k]].id = id]
    ELSE 0

Registered == {channels[k] : k \in 1..Len(channels)}

\* EventBus.emit
emit(e) == [events EXCEPT ![e] = @ + 1]

\* ---- RTL_TCP_Client ----

\* a packing that puts the low byte first
pack_little_endian(cmd_id, value) ==
    IF cmd_id \in 0..255 /\ value >= 0
    THEN <<cmd_id, value % 256, (value \div 256) % 256,
           (value \div 65536) % 256, (value \div 16777216) % 256>>
    ELSE <<>>

\* a packing of the argument as a signed integer (">Bi"), which accepts
\* negative arguments
pack_signed(cmd_id, value) ==
    <<cmd_id, (value \div 16777216) % 256, (value \div 65536) % 256,
      (value \div 256) % 256, value % 256>>

\* struct.pack(">BI", cmd_id, int(value)): one byte, then four bytes with
\* the high byte first; <<>> stands for struct.error (an argument out of
\* range).  Values stay below 2^31 here.
pack(cmd_id, value) ==
    IF cmd_id \in 0..255 /\ value >= 0
    THEN <<cmd_id, (value \div 16777216) % 256, (value \div 65536) % 256,
           (value \div 256) % 256, value % 256>>
    ELSE <<>>

\* a write that puts only the opcode byte of the packet on the connection
Frame_opcode_only(cmd, value, accepted) == <<cmd, value, accepted, <<cmd>>>>

\* what writer.write(packet) leaves on record
Frame(cmd, value, accepted) == <<cmd, value, accepted, pack(cmd, value)>>

\* RTL_TCP_Client.close up to its await of wait_closed
Close(t, tk, ret) ==
    IF sock = "none"
    THEN /\ sock' = sock
         /\ connected' = FALSE
         /\ task' = [task EXCEPT ![t] = [tk EXCEPT !.pc = ret]]
         /\ cpu' = t
    ELSE /\ sock' = "closed"
         /\ connected' = connected
         /\ task' = [task EXCEPT ![t] = [tk EXCEPT !.pc = "wait_closed",
                                                   !.ret = ret]]
         /\ cpu' = 0

\* a command wrapper (set_frequency, set_sample_rate, set_gain) and
\* _send_cmd, up to its first await: nothing happens without a writer; an
\* argument struct.pack rejects raises before anything is written and the
\* except clause calls close(); otherwise the frame is written and the
\* task awaits drain (a transport that lost its connection or was closed
\* drops the frame without raising)
Send(t, tk, cmd, value, ret, retNoWriter) ==
    IF sock = "none"
    THEN /\ wire' = wire
         /\ task' = [task EXCEPT ![t] = [tk EXCEPT !.pc = retNoWriter]]
         /\ cpu' = t
         /\ UNCHANGED <<sock, connected>>
    ELSE IF pack(cmd, value) = <<>>
    THEN /\ wire' = wire
         /\ Close(t, tk, ret)
    ELSE /\ wire' = Append(wire, Frame(cmd, value, sock \in {"open", "eof"}))
         /\ task' = [task EXCEPT ![t] = [tk EXCEPT !.pc = "drain", !.ret = ret]]
         /\ cpu' = 0
         /\ UNCHANGED <<sock, connected>>

\* asyncio.sleep
Sleep(t, tk, ret) ==
    /\ task' = [task EXCEPT ![t] = [tk EXCEPT !.pc = "sleep", !.ret = ret]]
    /\ cpu' = 0

\* drain returns, or raises on a transport that is closing: _send_cmd then
\* calls close
Drained(t) ==
    /\ cpu = 0
    /\ task[t].pc = "drain"
    /\ ~task[t].cancel
    /\ IF sock \in {"reset", "closed"}
       THEN /\ sock' = "closed"
            /\ task' = [task EXCEPT ![t].pc = "wait_closed"]
            /\ cpu' = 0
       ELSE /\ sock' = sock
            /\ task' = [task EXCEPT ![t].pc = task[t].ret]
            /\ cpu' = t
    /\ last' = Step
    /\ UNCHANGED <<gateVars, aloneVars, chan, channels, running, connected,
                   wire, gen, rx_task, events, nblk, nops, disconnected>>

\* a close that forgets "self.connected = False"
WaitClosed_keeps_connected(t) ==
    /\ cpu = 0
    /\ task[t].pc = "wait_closed"
    /\ ~task[t].cancel
    /\ connected' = connected
    /\ task' = [task EXCEPT ![t].pc = task[t].ret]
    /\ cpu' = t
    /\ last' = Step
    /\ UNCHANGED <<gateVars, aloneVars, chan, channels, running, sock, wire,
                   gen, rx_task, events, nblk, nops, disconnected>>

\* wait_closed returns: close marks the client disconnected
WaitClosed(t) ==
    /\ cpu = 0
    /\ task[t].pc = "wait_closed"
    /\ ~task[t].cancel
    /\ connected' = FALSE
    /\ task' = [task EXCEPT ![t].pc = task[t].ret]
    /\ cpu' = t
    /\ last' = Step
    /\ UNCHANGED <<gateVars, aloneVars, chan, channels, running, sock, wire,
                   gen, rx_task, events, nblk, nops, disconnected>>

\* asyncio.sleep returns
Woke(t) ==
    /\ cpu = 0
    /\ task[t].pc = "sleep"
    /\ ~task[t].cancel
    /\ task' = [task EXCEPT ![t].pc = task[t].ret]
    /\ cpu' = t
    /\ last' = Step
    /\ UNCHANGED <<gateVars, aloneVars, chan, channels, running, connected,
                   sock, wire, gen, rx_task, events, nblk, nops, disconnected>>

\* the peer closes its end: reads hit EOF, writes are still accepted
PeerClose ==
    /\ cpu = 0
    /\ sock = "open"
    /\ sock' = "eof"
    /\ last' = Step
    /\ UNCHANGED <<gateVars, aloneVars, chan, channels, running, connected,
                   wire, gen, rx_task, task, cpu, events, nblk, nops,
                   disconnected>>

\* the connection is reset: reads raise ConnectionResetError, writes are lost
PeerReset ==
    /\ cpu = 0
    /\ sock \in {"open", "eof"}
    /\ sock' = "reset"
    /\ last' = Step
    /\ UNCHANGED <<gateVars, aloneVars, chan, channels, running, connected,
                   wire, gen, rx_task, task, cpu, events, nblk, nops,
                   disconnected>>

\* ---- calls and returns ----

\* a caller task starts an operation of the receiver
Invoke(t, op, arg) ==
    /\ cpu = 0
    /\ task[t].pc = "idle"
    /\ task' = [task EXCEPT ![t] = [Idle EXCEPT !.pc = op, !.op = op,
                                                !.arg = arg]]
    /\ cpu' = t
    /\ nops' = nops + 1
    /\ disconnected' = IF op = "connect" THEN FALSE ELSE disconnected
    /\ last' = Call("call", 0, NoIQ, op)
    /\ UNCHANGED <<gateVars, aloneVars, chan, channels, running, connected,
                   sock, wire, gen, rx_task, events, nblk>>

\* the operation returns to its caller
Return(t) ==
    /\ cpu = t
    /\ task[t].pc = "return"
    /\ task' = [task EXCEPT ![t] = Idle]
    /\ cpu' = 0
    /\ disconnected' = IF task[t].op = "disconnect" THEN TRUE ELSE disconnected
    /\ last' = Call("return", task[t].obj, NoIQ, task[t].op)
    /\ UNCHANGED <<gateVars, aloneVars, chan, channels, running, connected,
                   sock, wire, gen, rx_task, events, nblk, nops>>

\* ---- SDRReceiver.connect ----

ConnectCall(t) ==
    /\ cpu = t
    /\ task[t].pc = "connect"
    /\ task' = [task EXCEPT ![t].pc = "open_connection"]
    /\ cpu' = 0
    /\ last' = Step
    /\ UNCHANGED <<gateVars, aloneVars, chan, channels, running, connected,
                   sock, wire, gen, rx_task, events, nblk, nops, disconnected>>

\* open_connection succeeds: RTL_TCP_Client.connect stores the new streams
\* and sends SET_GAIN_MODE = manual
OpenOk(t) ==
    /\ cpu = 0
    /\ task[t].pc = "open_connection"
    /\ sock' = "open"
    /\ gen' = gen + 1
    /\ connected' = TRUE
    /\ wire' = Append(wire, Frame(CmdSetGainMode, 1, TRUE))
    /\ task' = [task EXCEPT ![t].pc = "drain", ![t].ret = "c_check"]
    /\ cpu' = 0
    /\ last' = Step
    /\ UNCHANGED <<gateVars, aloneVars, chan, channels, running, rx_task,
                   events, nblk, nops, disconnected>>

\* open_connection raises
OpenFail(t) ==
    /\ cpu = 0
    /\ task[t].pc = "open_connection"
    /\ connected' = FALSE
    /\ task' = [task EXCEPT ![t].pc = "c_check"]
    /\ cpu' = t
    /\ last' = Step
    /\ UNCHANGED <<gateVars, aloneVars, chan, channels, running, sock, wire,
                   gen, rx_task, events, nblk, nops, disconnected>>

\* a connect that configures and starts the receiver whatever the client
\* reports
ConnectCheck_unchecked(t) ==
    /\ cpu = t
    /\ task[t].pc = "c_check"
    /\ Send(t, task[t], CmdSetSampleRate, SampleRate, "c_sleep1", "c_sleep1")
    /\ last' = Step
    /\ UNCHANGED <<gateVars, aloneVars, chan, channels, running, gen, rx_task,
                   events, nblk, nops, disconnected>>

\* "if not self.client.connected: return", then set_sample_rate
ConnectCheck(t) ==
    /\ cpu = t
    /\ task[t].pc = "c_check"
    /\ IF ~connected
       THEN /\ task' = [task EXCEPT ![t].pc = "return"]
            /\ UNCHANGED <<wire, cpu, connected, sock>>
       ELSE Send(t, task[t], CmdSetSampleRate, SampleRate,
                 "c_sleep1", "c_sleep1")
    /\ last' = Step
    /\ UNCHANGED <<gateVars, aloneVars, chan, channels, running, gen, rx_task,
                   events, nblk, nops, disconnected>>

\* a connect that marks the receiver running and starts the loop right
\* after set_sample_rate, without sending the gain
ConnectSleep_skips_gain(t) ==
    /\ cpu = t
    /\ \/ task[t].pc = "c_sleep1" /\ Sleep(t, task[t], "c_run")
       \/ task[t].pc = "c_sleep2" /\ Sleep(t, task[t], "c_run")
    /\ last' = Step
    /\ UNCHANGED <<gateVars, aloneVars, chan, channels, running, connected,
                   sock, wire, gen, rx_task, events, nblk, nops, disconnected>>

\* "await asyncio.sleep(0.05)" after set_sample_rate and after set_gain
ConnectSleep(t) ==
    /\ cpu = t
    /\ \/ task[t].pc = "c_sleep1" /\ Sleep(t, task[t], "c_gain")
       \/ task[t].pc = "c_sleep2" /\ Sleep(t, task[t], "c_run")
    /\ last' = Step
    /\ UNCHANGED <<gateVars, aloneVars, chan, channels, running, connected,
                   sock, wire, gen, rx_task, events, nblk, nops, disconnected>>

ConnectGain(t) ==
    /\ cpu = t
    /\ task[t].pc = "c_gain"
    /\ Send(t, task[t], CmdSetGain, GainTenths, "c_sleep2", "c_sleep2")
    /\ last' = Step
    /\ UNCHANGED <<gateVars, aloneVars, chan, channels, running, gen, rx_task,
                   events, nblk, nops, disconnected>>

\* "self.running = True" and create_task(self._rx_loop())
ConnectRun(t) ==
    /\ cpu = t
    /\ task[t].pc = "c_run"
    /\ running' = TRUE
    /\ LET id == 10 + Cardinality(RxTasks) + 1 IN
         /\ rx_task' = id
         /\ task' = [i \in DOMAIN task \cup {id} |->
                       IF i = id THEN [Idle EXCEPT !.pc = "start",
                                                   !.op = "_rx_loop"]
                       ELSE IF i = t THEN [task[t] EXCEPT !.pc = "return"]
                       ELSE task[i]]
    /\ last' = Step
    /\ UNCHANGED <<gateVars, aloneVars, chan, channels, connected, sock, wire,
                   gen, cpu, events, nblk, nops, disconnected>>

\* ---- SDRReceiver.disconnect ----

\* running = False, stop every channel, client.close()
DisconnectCall(t) ==
    /\ cpu = t
    /\ task[t].pc = "disconnect"
    /\ running' = FALSE
    /\ chan' = [o \in DOMAIN chan |->
                  IF o \in Registered THEN stop(chan[o]) ELSE chan[o]]
    /\ Close(t, task[t], "d_cancel")
    /\ last' = Step
    /\ UNCHANGED <<gateVars, aloneVars, channels, wire, gen, rx_task, events,
                   nblk, nops, disconnected>>

\* cancel the acquisition task if it is not done, and await it
DisconnectCancel(t) ==
    /\ cpu = t
    /\ task[t].pc = "d_cancel"
    /\ IF rx_task # 0 /\ task[rx_task].pc # "done"
       THEN /\ task' = [task EXCEPT ![rx_task].cancel = TRUE,
                                    ![t].pc = "await_task",
                                    ![t].obj = rx_task]
            /\ cpu' = 0
       ELSE /\ task' = [task EXCEPT ![t].pc = "d_emit"]
            /\ cpu' = cpu
    /\ last' = Step
    /\ UNCHANGED <<gateVars, aloneVars, chan, channels, running, connected,
                   sock, wire, gen, rx_task, events, nblk, nops, disconnected>>

\* the awaited task is done
AwaitTask(t) ==
    /\ cpu = 0
    /\ task[t].pc = "await_task"
    /\ task[task[t].obj].pc = "done"
    /\ task' = [task EXCEPT ![t].pc = "d_emit"]
    /\ cpu' = t
    /\ last' = Step
    /\ UNCHANGED <<gateVars, aloneVars, chan, channels, running, connected,
                   sock, wire, gen, rx_task, events, nblk, nops, disconnected>>

DisconnectEmit(t) ==
    /\ cpu = t
    /\ task[t].pc = "d_emit"
    /\ events' = emit("dongle_disconnected")
    /\ task' = [task EXCEPT ![t].pc = "return"]
    /\ last' = Step
    /\ UNCHANGED <<gateVars, aloneVars, chan, channels, running, connected,
                   sock, wire, gen, rx_task, cpu, nblk, nops, disconnected>>

\* ---- SDRReceiver._rx_loop ----

\* one process_samples call of the fan-out
deliver(ch, iq, n, fault) ==
    [process_samples(ch, iq, fault) EXCEPT
        !.seen = Append(@, n),
        !.faulted = IF raises(ch, iq, fault) THEN Append(@, n) ELSE @]

\* a fan-out that a raising Channel aborts
feed_abort_on_fault(heap, snap, iq, n, faults) ==
    [o \in DOMAIN heap |->
        IF \E k \in 1..Len(snap) :
              /\ snap[k] = o
              /\ \A j \in 1..(k - 1) : ~raises(heap[snap[j]], iq, faults[j])
        THEN deliver(heap[o], iq, n,
                     faults[CHOOSE k \in 1..Len(snap) : snap[k] = o])
        ELSE heap[o]]

\* a fan-out that feeds only the first Channel
feed_first_only(heap, snap, iq, n, faults) ==
    [o \in DOMAIN heap |->
        IF Len(snap) > 0 /\ snap[1] = o
        THEN deliver(heap[o], iq, n, faults[1])
        ELSE heap[o]]

\* "for ch in list(self.channels.values()): try: await ch.process_samples(iq)
\* except Exception: log": the heap after block n was fed to the snapshot
feed(heap, snap, iq, n, faults) ==
    [o \in DOMAIN heap |->
        IF \E k \in 1..Len(snap) : snap[k] = o
        THEN deliver(heap[o], iq, n,
                     faults[CHOOSE k \in 1..Len(snap) : snap[k] = o])
        ELSE heap[o]]

\* "while self.running and self.client.connected:" and the call of read_iq
RxLoopHead(i, tk) ==
    IF running /\ connected
    THEN IF sock = "none"
         THEN Sleep(i, tk, "rx_loop")
         ELSE /\ task' = [task EXCEPT ![i] = [tk EXCEPT !.pc = "read",
                                                        !.gen = gen]]
              /\ cpu' = 0
    ELSE /\ task' = [task EXCEPT ![i] = [tk EXCEPT !.pc = "rx_finally"]]
         /\ cpu' = i

\* the task's first run
RxStart(i) ==
    /\ cpu = 0
    /\ task[i].pc = "start"
    /\ ~task[i].cancel
    /\ RxLoopHead(i, task[i])
    /\ last' = Step
    /\ UNCHANGED <<gateVars, aloneVars, chan, channels, running, connected,
                   sock, wire, gen, rx_task, events, nblk, nops, disconnected>>

\* whether the reader the task waits on can still return a full block /
\* fails: a reader at EOF returns what it has buffered; a replaced reader
\* belongs to a connection the client no longer tracks
CanRead(i) == task[i].gen # gen \/ sock \in {"open", "eof", "closed"}
CanFail(i) == task[i].gen # gen \/ sock \in {"eof", "reset", "closed"}

\* readexactly returns a block: convert, emit signal_update, feed the
\* channels, loop
RxData(i, iq, faults) ==
    /\ cpu = 0
    /\ task[i].pc = "read"
    /\ ~task[i].cancel
    /\ CanRead(i)
    /\ nblk < MaxBlocks
    /\ nblk' = nblk + 1
    /\ events' = emit("signal_update")
    /\ chan' = feed(chan, channels, iq, nblk + 1, faults)
    /\ RxLoopHead(i, task[i])
    /\ last' = Call("feed", 0, iq, "none")
    /\ UNCHANGED <<gateVars, aloneVars, channels, running, connected, sock,
                   wire, gen, rx_task, nops, disconnected>>

\* a read_iq that lets the error of readexactly through to the loop
RxReadError_raises(i) ==
    /\ cpu = 0
    /\ task[i].pc = "read"
    /\ ~task[i].cancel
    /\ CanFail(i)
    /\ connected' = connected
    /\ task' = [task EXCEPT ![i].pc = "rx_finally"]
    /\ cpu' = i
    /\ last' = Step
    /\ UNCHANGED <<gateVars, aloneVars, chan, channels, running, sock, wire,
                   gen, rx_task, events, nblk, nops, disconnected>>

\* a read_iq that returns b"" on an error without marking the client
\* disconnected
RxReadError_soft_idle(i) ==
    /\ cpu = 0
    /\ task[i].pc = "read"
    /\ ~task[i].cancel
    /\ CanFail(i)
    /\ connected' = connected
    /\ Sleep(i, task[i], "rx_loop")
    /\ last' = Step
    /\ UNCHANGED <<gateVars, aloneVars, chan, channels, running, sock, wire,
                   gen, rx_task, events, nblk, nops, disconnected>>

\* readexactly raises IncompleteReadError or ConnectionResetError: read_iq
\* marks the client disconnected and returns b"", the loop sleeps
RxReadError(i) ==
    /\ cpu = 0
    /\ task[i].pc = "read"
    /\ ~task[i].cancel
    /\ CanFail(i)
    /\ connected' = FALSE
    /\ Sleep(i, task[i], "rx_loop")
    /\ last' = Step
    /\ UNCHANGED <<gateVars, aloneVars, chan, channels, running, sock, wire,
                   gen, rx_task, events, nblk, nops, disconnected>>

\* "continue" after the sleep
RxLoop(i) ==
    /\ cpu = i
    /\ task[i].pc = "rx_loop"
    /\ RxLoopHead(i, task[i])
    /\ last' = Step
    /\ UNCHANGED <<gateVars, aloneVars, chan, channels, running, connected,
                   sock, wire, gen, rx_task, events, nblk, nops, disconnected>>

\* "finally: self.running = False; await self.client.close()"
RxFinally(i) ==
    /\ cpu = i
    /\ task[i].pc = "rx_finally"
    /\ running' = FALSE
    /\ Close(i, task[i], "rx_exit")
    /\ last' = Step
    /\ UNCHANGED <<gateVars, aloneVars, chan, channels, wire, gen, rx_task,
                   events, nblk, nops, disconnected>>

RxExit(i) ==
    /\ cpu = i
    /\ task[i].pc = "rx_exit"
    /\ task' = [task EXCEPT ![i].pc = "done"]
    /\ cpu' = 0
    /\ last' = Step
    /\ UNCHANGED <<gateVars, aloneVars, chan, channels, running, connected,
                   sock, wire, gen, rx_task, events, nblk, nops, disconnected>>

\* a loop that swallows CancelledError where it waits and goes on waiting
Cancelled_resumes(i) ==
    /\ cpu = 0
    /\ task[i].cancel
    /\ task' = [task EXCEPT ![i].cancel = FALSE]
    /\ cpu' = 0
    /\ last' = Step
    /\ UNCHANGED <<gateVars, aloneVars, chan, channels, running, connected,
                   sock, wire, gen, rx_task, events, nblk, nops, disconnected>>

\* a cancelled task resumes with CancelledError: a task that never ran is
\* done at once; inside the loop the error is swallowed and the finally
\* clause runs; inside the finally clause it ends the task
Cancelled(i) ==
    /\ cpu = 0
    /\ task[i].cancel
    /\ \/ /\ task[i].pc \in {"start", "wait_closed"}
          /\ task' = [task EXCEPT ![i].pc = "done", ![i].cancel = FALSE]
          /\ cpu' = 0
       \/ /\ task[i].pc \in {"read", "sleep"}
          /\ task' = [task EXCEPT ![i].pc = "rx_finally", ![i].cancel = FALSE]
          /\ cpu' = i
    /\ last' = Step
    /\ UNCHANGED <<gateVars, aloneVars, chan, channels, running, connected,
                   sock, wire, gen, rx_task, events, nblk, nops, disconnected>>

\* ---- channel management ----

\* SDRReceiver.add_channel up to the await inside channel.start()
AddChannel(t) ==
    /\ cpu = t
    /\ task[t].pc = "add_channel"
    /\ IF Lookup(task[t].arg.id) # 0
       THEN /\ task' = [task EXCEPT ![t].pc = "return"]
            /\ UNCHANGED <<chan, channels, wire, cpu, connected, sock>>
       ELSE LET o == Len(chan) + 1 IN
            /\ chan' = Append(chan,
                         [Channel(task[t].arg.id, task[t].arg.frequency, -50,
                                  NoValue, NoNumber, "default")
                            EXCEPT !.since = nblk])
            /\ channels' = Append(channels, o)
            /\ Send(t, [task[t] EXCEPT !.obj = o], CmdSetFrequency,
                    task[t].arg.frequency, "start_sleep", "started")
    /\ last' = Step
    /\ UNCHANGED <<gateVars, aloneVars, running, gen, rx_task, events, nblk,
                   nops, disconnected>>

\* RTL_TCP_Client.set_frequency: "await asyncio.sleep(0.01)"
SetFrequencySleep(t) ==
    /\ cpu = t
    /\ \/ task[t].pc = "start_sleep" /\ Sleep(t, task[t], "started")
       \/ task[t].pc = "retune_sleep" /\ Sleep(t, task[t], "return")
    /\ last' = Step
    /\ UNCHANGED <<gateVars, aloneVars, chan, channels, running, connected,
                   sock, wire, gen, rx_task, events, nblk, nops, disconnected>>

\* Channel.start after set_frequency: "self.running = True"; add_channel
\* then emits channel_added
Started(t) ==
    /\ cpu = t
    /\ task[t].pc = "started"
    /\ chan' = [chan EXCEPT ![task[t].obj].running = TRUE]
    /\ events' = IF task[t].op = "add_channel"
                 THEN emit("channel_added") ELSE events
    /\ task' = [task EXCEPT ![t].pc = "return"]
    /\ last' = Step
    /\ UNCHANGED <<gateVars, aloneVars, channels, running, connected, sock,
                   wire, gen, rx_task, cpu, nblk, nops, disconnected>>

\* a removal that empties the dict
Without_all(map, k) == <<>>

\* the dict without the entry at position k
Without(map, k) == SubSeq(map, 1, k - 1) \o SubSeq(map, k + 1, Len(map))

\* SDRReceiver.remove_channel
RemoveChannel(t) ==
    /\ cpu = t
    /\ task[t].pc = "remove_channel"
    /\ LET o == Lookup(task[t].arg.id) IN
       IF o = 0
       THEN UNCHANGED <<chan, channels, events>>
       ELSE /\ chan' = [chan EXCEPT ![o] = stop(@)]
            /\ channels' = Without(channels,
                             CHOOSE k \in 1..Len(channels) : channels[k] = o)
            /\ events' = emit("channel_removed")
    /\ task' = [task EXCEPT ![t].pc = "return"]
    /\ last' = Step
    /\ UNCHANGED <<gateVars, aloneVars, running, connected, sock, wire, gen,
                   rx_task, cpu, nblk, nops, disconnected>>

\* what set_channel finds in the store: NoPreset stands for "not in
\* self.presets"
NoPreset == [frequency |-> 0, squelch |-> 0, tone_type |-> NoValue,
             tone_value |-> NoNumber, sink |-> NoValue]

\* a lookup that falls back to a preset when the name is unknown
lookup_preset_default(name) ==
    IF name \in DOMAIN PresetStore THEN PresetStore[name] ELSE PresetStore["a"]

\* "if name not in self.presets: return" and "cfg = self.presets[name]"
lookup_preset(name) ==
    IF name \in DOMAIN PresetStore THEN PresetStore[name] ELSE NoPreset

\* a set_channel that keeps the channels already registered
set_channel_keep(map) == map

\* ChannelsManager.set_channel, step 1: every registered channel is stopped
\* and deleted from receiver.channels
set_channel_clear(map) == <<>>

\* SDRReceiver.set_channel and ChannelsManager.set_channel up to the await
\* inside channel.start()
SetChannel(t) ==
    /\ cpu = t
    /\ task[t].pc = "set_channel"
    /\ IF ~running \/ lookup_preset(task[t].arg.id) = NoPreset
       THEN /\ task' = [task EXCEPT ![t].pc = "return"]
            /\ UNCHANGED <<chan, channels, wire, cpu, connected, sock>>
       ELSE LET cfg  == lookup_preset(task[t].arg.id)
                kept == set_channel_clear(channels)
                o    == Len(chan) + 1
            IN
            /\ chan' = Append(
                  [x \in DOMAIN chan |->
                      IF x \in Registered
                         /\ \A k \in 1..Len(kept) : kept[k] # x
                      THEN stop(chan[x]) ELSE chan[x]],
                  [Channel(task[t].arg.id, cfg.frequency, cfg.squelch,
                           cfg.tone_type, cfg.tone_value, cfg.sink)
                     EXCEPT !.since = nblk])
            /\ channels' = Append(kept, o)
            /\ Send(t, [task[t] EXCEPT !.obj = o], CmdSetFrequency,
                    cfg.frequency, "start_sleep", "started")
    /\ last' = Step
    /\ UNCHANGED <<gateVars, aloneVars, running, gen, rx_task, events, nblk,
                   nops, disconnected>>

\* DeviceManager.retune_channel -> Channel.set_frequency
Retune(t) ==
    /\ cpu = t
    /\ task[t].pc = "retune"
    /\ LET o == Lookup(task[t].arg.id) IN
       IF o = 0
       THEN /\ task' = [task EXCEPT ![t].pc = "return"]
            /\ UNCHANGED <<chan, wire, cpu, connected, sock>>
       ELSE /\ chan' = [chan EXCEPT ![o].frequency = task[t].arg.frequency]
            /\ Send(t, [task[t] EXCEPT !.obj = o], CmdSetFrequency,
                    task[t].arg.frequency, "retune_sleep", "return")
    /\ last' = Step
    /\ UNCHANGED <<gateVars, aloneVars, channels, running, gen, rx_task,
                   events, nblk, nops, disconnected>>

\* ---- the receiver with its callers ----

\* the faults injected into the fan-out
LoopFaults == {"none", "squelch"}

\* the blocks a loop reads: buffer_size bytes
LoopBlocks == {IQ(BufferSize, p, FALSE, 1) : p \in LoopPowers}

\* a block arrives, and some channels may fault on it
RxBlock(i) ==
    \E iq \in LoopBlocks, faults \in [1..Len(channels) -> LoopFaults] :
        RxData(i, iq, faults)

\* a block arrives, and no channel faults
RxBlockPlain(i) ==
    RxData(i, IQ(BufferSize, -40, FALSE, 1),
           [k \in 1..Len(channels) |-> "none"])

\* the receiver after a connect() that succeeded: the three configuration
\* frames are sent, the acquisition task is created and has not run yet
InitStreaming ==
    /\ gate = SquelchGate(-45, DefaultHysteresis)
    /\ gateLog = <<>>
    /\ chan = <<>>
    /\ channels = <<>>
    /\ running = TRUE
    /\ connected = TRUE
    /\ sock = "open"
    /\ wire = <<Frame(CmdSetGainMode, 1, TRUE),
                 Frame(CmdSetSampleRate, SampleRate, TRUE),
                 Frame(CmdSetGain, GainTenths, TRUE)>>
    /\ gen = 1
    /\ rx_task = 11
    /\ task = [i \in {1, 11} |->
                 IF i = 11 THEN [Idle EXCEPT !.pc = "start", !.op = "_rx_loop"]
                 ELSE Idle]
    /\ cpu = 0
    /\ events = [e \in EventNames |-> 0]
    /\ nblk = 0
    /\ nops = 0
    /\ disconnected = FALSE
    /\ last = Call("init", 0, NoIQ, "none")
    /\ InitAlone

\* channel operations called on a streaming receiver
StreamOperations ==
    ({"add_channel"} \X AddConfigs)
    \cup ({"remove_channel"} \X {Arg(id, 0) : id \in RemoveIds})
    \cup ({"set_channel"} \X {Arg(n, 0) : n \in PresetNames})
    \cup ({"retune"} \X Retunes)

NextStream ==
    \/ \E t \in Callers, c \in StreamOperations :
          nops < MaxOps /\ Invoke(t, c[1], c[2])
    \/ \E t \in Callers : AddChannel(t)
    \/ \E t \in Callers : SetFrequencySleep(t)
    \/ \E t \in Callers : Started(t)
    \/ \E t \in Callers : RemoveChannel(t)
    \/ \E t \in Callers : SetChannel(t)
    \/ \E t \in Callers : Retune(t)
    \/ \E t \in Callers : Return(t)
    \/ \E t \in DOMAIN task : Drained(t)
    \/ \E t \in DOMAIN task : WaitClosed(t)
    \/ \E t \in DOMAIN task : Woke(t)
    \/ \E i \in RxTasks : RxStart(i)
    \/ \E i \in RxTasks : RxBlock(i)
    \/ \E i \in RxTasks : RxReadError(i)
    \/ \E i \in RxTasks : RxLoop(i)
    \/ \E i \in RxTasks : RxFinally(i)
    \/ \E i \in RxTasks : RxExit(i)
    \/ PeerClose
    \/ PeerReset

SpecStream == InitStreaming /\ [][NextStream]_vars

\* The same receiver with fewer operations, and with the event loop
\* resuming every task that can run: a step is taken whenever one is
\* possible.
NextLoss ==
    \/ \E t \in Callers, c \in StreamOperations :
          nops < MaxLossOps /\ Invoke(t, c[1], c[2])
    \/ \E t \in Callers : AddChannel(t)
    \/ \E t \in Callers : SetFrequencySleep(t)
    \/ \E t \in Callers : Started(t)
    \/ \E t \in Callers : RemoveChannel(t)
    \/ \E t \in Callers : SetChannel(t)
    \/ \E t \in Callers : Retune(t)
    \/ \E t \in Callers : Return(t)
    \/ \E t \in DOMAIN task : Drained(t)
    \/ \E t \in DOMAIN task : WaitClosed(t)
    \/ \E t \in DOMAIN task : Woke(t)
    \/ \E i \in RxTasks : RxStart(i)
    \/ \E i \in RxTasks : RxBlock(i)
    \/ \E i \in RxTasks : RxReadError(i)
    \/ \E i \in RxTasks : RxLoop(i)
    \/ \E i \in RxTasks : RxFinally(i)
    \/ \E i \in RxTasks : RxExit(i)
    \/ PeerClose
    \/ PeerReset

SpecLoss == InitStreaming /\ [][NextLoss]_vars /\ WF_vars(NextLoss)

\* the blocks numbered m+1 .. n
Blocks(m, n) == [k \in 1..(n - m) |-> m + k]

\* C1: every Channel in the receiver's channel map has been handed every
\* block read since it was registered, exactly once and in arrival order; in
\* particular whenever a loop waits for the next block, all channels have
\* been handed the latest one.
C1_EveryBlockOnceInOrder ==
    \A o \in Registered : chan[o].seen = Blocks(chan[o].since, nblk)

\* two channels registered before the first block have both been handed
\* blocks 1 and 2, and the loop has issued its next read
C1_Witness ==
    /\ Len(channels) = 2
    /\ \A o \in Registered : chan[o].since = 0 /\ chan[o].seen = <<1, 2>>
    /\ \E i \in RxTasks : task[i].pc = "read"

\* n occurs in the sequence q
In(n, q) == \E k \in 1..Len(q) : q[k] = n

\* C2: when a Channel's process_samples raises on block N, every other
\* Channel of the map is still handed block N, block N+1 is handed to every
\* Channel including the one that raised, and the loop does not end: it
\* leaves its while loop only when its condition is false.
C2_FanOutIsolation ==
    /\ \A o \in Registered : \A k \in 1..Len(chan[o].faulted) :
          LET n == chan[o].faulted[k] IN
          /\ \A p \in Registered : chan[p].since < n => In(n, chan[p].seen)
          /\ nblk > n => \A p \in Registered :
                            chan[p].since <= n => In(n + 1, chan[p].seen)
    /\ \A i \in RxTasks :
          task[i].pc = "rx_finally" => ~(running /\ connected)

\* the first of two channels raised on block 1; both were handed blocks 1, 2
C2_Witness ==
    /\ Len(channels) = 2
    /\ chan[channels[1]].faulted = <<1>>
    /\ chan[channels[1]].seen = <<1, 2>>
    /\ chan[channels[2]].seen = <<1, 2>>
    /\ chan[channels[2]].faulted = <<>>

\* the frequency of the last SET_FREQUENCY frame written, 0 if none
LastFrequency ==
    LET at == {k \in 1..Len(wire) : wire[k][1] = CmdSetFrequency} IN
    IF at = {} THEN 0
    ELSE wire[CHOOSE k \in at : \A j \in at : j <= k][2]

\* the latest step was the return of operation op
Returned(op) == last.op = "return" /\ last.fault = op

\* C8: set_channel(p) with a known preset p, on a running receiver and with
\* no other operation in progress: all channels registered before are
\* stopped and removed as the new one is registered, the SET_FREQUENCY frame
\* with the preset's frequency is written (and reaches the tuner when the
\* connection is up), and on return the map holds exactly the new Channel,
\* built from the preset and RUNNING, and the last SET_FREQUENCY frame
\* written carries the preset's frequency.
C8_ExclusiveActivation ==
    /\ [](Returned("set_channel") /\ last.obj # 0 =>
            LET o   == last.obj
                cfg == PresetStore[chan[o].id]
            IN  /\ channels = <<o>>
                /\ chan[o].running
                /\ chan[o].frequency = cfg.frequency
                /\ chan[o].squelch.threshold_db = cfg.squelch
                /\ chan[o].tone = ToneDetector(cfg.tone_type, cfg.tone_value)
                /\ chan[o].audio.sink_name = cfg.sink
                /\ \A x \in Objects \ {o} :
                      ~chan[x].running /\ ~chan[x].audio.pa
                /\ LastFrequency = cfg.frequency)
    /\ [][\A t \in Callers :
            (/\ cpu = t
             /\ task[t].pc = "set_channel"
             /\ running
             /\ task[t].arg.id \in DOMAIN PresetStore) =>
            LET o   == Len(chan) + 1
                cfg == PresetStore[task[t].arg.id]
            IN  /\ channels' = <<o>>
                /\ chan'[o].id = task[t].arg.id
                /\ \A x \in Registered : ~chan'[x].running
                /\ wire' = Append(wire, Frame(CmdSetFrequency, cfg.frequency,
                                               sock \in {"open", "eof"}))
          ]_vars

\* set_channel returned after replacing a running channel, its frame sent
C8_Witness ==
    /\ Returned("set_channel")
    /\ last.obj > 1
    /\ chan[last.obj - 1].seen # <<>>
    /\ LastFrequency = chan[last.obj].frequency
    /\ Len(wire) > 4
    /\ wire[Len(wire)][3]

\* C9: set_channel with a name that is not in the preset store returns
\* without changing the channel map, any Channel, the client or the
\* frames sent.
C9_UnknownPresetIsNoOp ==
    [][\A t \in Callers :
          (/\ cpu = t
           /\ task[t].op = "set_channel"
           /\ task[t].arg.id \notin DOMAIN PresetStore) =>
          /\ UNCHANGED <<chan, channels, wire, running, connected, sock,
                         events>>
          /\ task'[t].pc \in {"return", "idle"}]_vars

\* set_channel returned without effect on a running receiver with a
\* running channel
C9_Witness ==
    /\ Returned("set_channel")
    /\ last.obj = 0
    /\ running
    /\ \E o \in Registered : chan[o].running

\* the Channel an add_channel or remove_channel call of task t acts on
Target(t) ==
    IF task[t].op = "remove_channel" THEN Lookup(task[t].arg.id)
    ELSE task[t].obj

\* C10: no step of add_channel or remove_channel changes another Channel of
\* the map: it stays in the map, with the same run state, squelch state and
\* frequency (the whole object is unchanged).
C10_SiblingsUndisturbed ==
    [][\A t \in Callers :
          (cpu = t /\ task[t].op \in {"add_channel", "remove_channel"}) =>
          \A o \in Registered :
             o # Target(t) =>
               /\ \E k \in 1..Len(channels') : channels'[k] = o
               /\ chan'[o] = chan[o]]_vars

\* a channel was removed while a sibling, added earlier, stays running
C10_Witness ==
    /\ Returned("remove_channel")
    /\ events["channel_removed"] > 0
    /\ events["channel_added"] > 1
    /\ \E o \in Registered : chan[o].running

\* C14: a read_iq call of the loop ends in one of two ways: it returns a
\* block of exactly the requested size, which is fed to the channels, or
\* (short read, peer close, connection reset) it returns the empty result
\* with connected = false and without an exception: the loop goes on to its
\* empty-read branch and no channel is fed.
C14_ReadAllOrNothing ==
    [][\A i \in RxTasks :
          (/\ cpu = 0
           /\ task[i].pc = "read"
           /\ ~task[i].cancel
           /\ (nblk' # nblk \/ task'[i].pc # "read")) =>
          \/ /\ nblk' = nblk + 1
             /\ last'.op = "feed"
             /\ last'.iq.size = BufferSize
          \/ /\ nblk' = nblk
             /\ ~connected'
             /\ task'[i].pc = "sleep"
             /\ task'[i].ret = "rx_loop"
             /\ chan' = chan]_vars

\* after a block was read the connection was reset and the next read
\* returned empty: the client is marked disconnected, the loop sleeps
C14_Witness ==
    /\ nblk > 0
    /\ sock = "reset"
    /\ ~connected
    /\ \E i \in RxTasks : task[i].pc = "sleep" /\ task[i].ret = "rx_loop"

\* C15 (as claimed): an empty read is not fatal to the loop: after its short
\* wait the loop of a running receiver issues another read.
C15_EmptyReadRetries ==
    [][\A i \in RxTasks :
          (cpu = i /\ task[i].pc = "rx_loop" /\ running) =>
             task'[i].pc = "read"]_vars

\* C19: every step that takes a Channel from RUNNING to STOPPED (stop())
\* also drops its audio handle; remove_channel(id) of a registered id leaves
\* that Channel stopped, its audio handle dropped and the map one entry
\* shorter, with no entry for id; remove_channel of an unknown id changes
\* no channel, no entry of the map, no event count and nothing of the
\* connection.
C19_RemoveStopsAndReleases ==
    /\ [][\A o \in DOMAIN chan :
            (chan[o].running /\ ~chan'[o].running) => ~chan'[o].audio.pa]_vars
    /\ [][\A t \in Callers :
            (cpu = t /\ task[t].pc = "remove_channel") =>
            LET o == Lookup(task[t].arg.id) IN
            IF o = 0
            THEN UNCHANGED <<chan, channels, events, wire, running,
                             connected, sock, rx_task>>
            ELSE /\ ~chan'[o].running
                 /\ ~chan'[o].audio.pa
                 /\ Len(channels') = Len(channels) - 1
                 /\ \A k \in 1..Len(channels') :
                       /\ channels'[k] # o
                       /\ chan'[channels'[k]].id # task[t].arg.id
                 /\ DOMAIN chan' = DOMAIN chan]_vars

\* remove_channel returned, and a Channel that had been fed blocks is out of
\* the map, stopped, with its audio handle dropped
C19_Witness ==
    /\ Returned("remove_channel")
    /\ events["channel_removed"] > 0
    /\ \E o \in DOMAIN chan :
          /\ o \notin Registered
          /\ Lookup(chan[o].id) = 0
          /\ chan[o].seen # <<>>
          /\ ~chan[o].running
          /\ ~chan[o].audio.pa

\* a command is in flight: an operation is between its call and its return
Busy == cpu # 0 \/ \E t \in Callers : task[t].pc # "idle"

\* C32 (as claimed): whenever no command is in flight, every RUNNING
\* Channel of the channel map has a stored frequency equal to the frequency
\* of the last SET_FREQUENCY frame written to the tuner.
C32_SingleTuner ==
    ~Busy =>
       \A o \in Registered :
          chan[o].running => chan[o].frequency = LastFrequency

\* C33 (as claimed): whenever the acquisition loop has exited (every
\* acquisition task created so far has ended), the receiver is not running,
\* its client is closed and no Channel of the map is RUNNING.
C33_LoopExitStopsEverything ==
    (RxTasks # {} /\ LiveRx = {}) =>
       /\ ~running
       /\ ~connected
       /\ sock \in {"none", "closed"}
       /\ \A o \in Registered : ~chan[o].running

\* C30 (as claimed): in every interleaving, the squelch state of a Channel
\* changes and its sink is written only in steps that find the Channel
\* RUNNING: not between its registration and the end of its start(), and
\* not after its stop().
C30_ProcessedOnlyWhileRunning ==
    [][\A o \in DOMAIN chan :
          (\/ chan'[o].squelch # chan[o].squelch
           \/ chan'[o].audio.writes # chan[o].audio.writes) =>
             chan[o].running]_vars

\* an acquisition loop has had an empty read and waits to look at its loop
\* condition again
EmptyRead ==
    \E i \in RxTasks :
       task[i].pc \in {"sleep", "rx_loop"} /\ task[i].ret = "rx_loop"

\* C27: an empty read caused by a socket error marks the client not
\* connected at once; the loop that had it never reads again but goes to
\* its finally clause, which clears running; and (every runnable task
\* being resumed) one empty read leads to the state where the receiver is
\* not running, the client not connected and the loop has ended.
C27_ConnectionLostIsExposed ==
    /\ [][\A i \in RxTasks :
            (task[i].pc = "read" /\ task'[i].pc = "sleep") =>
               ~connected']_vars
    /\ [][\A i \in RxTasks :
            (cpu = i /\ task[i].pc = "rx_loop") =>
               task'[i].pc = "rx_finally"]_vars
    /\ EmptyRead ~> (~running /\ ~connected /\ LiveRx = {})

\* the loop read a block, then the connection was reset, and the loop has
\* ended after its empty read
C27_Witness ==
    /\ nblk > 0
    /\ sock = "closed"
    /\ ~running
    /\ ~connected
    /\ LiveRx = {}

\* the whole life cycle, from construction
LifeOperations ==
    ({"connect", "disconnect"} \X {Arg(NoValue, 0)})
    \cup ({"add_channel"} \X {Arg("a", 146000000)})
    \cup ({"retune"} \X Retunes)

Next ==
    \/ \E t \in Callers, c \in LifeOperations :
          nops < MaxLifeOps /\ Invoke(t, c[1], c[2])
    \/ \E t \in Callers : ConnectCall(t)
    \/ \E t \in Callers : OpenOk(t)
    \/ \E t \in Callers : OpenFail(t)
    \/ \E t \in Callers : ConnectCheck(t)
    \/ \E t \in Callers : ConnectSleep(t)
    \/ \E t \in Callers : ConnectGain(t)
    \/ \E t \in Callers : ConnectRun(t)
    \/ \E t \in Callers : DisconnectCall(t)
    \/ \E t \in Callers : DisconnectCancel(t)
    \/ \E t \in Callers : AwaitTask(t)
    \/ \E t \in Callers : DisconnectEmit(t)
    \/ \E t \in Callers : AddChannel(t)
    \/ \E t \in Callers : SetFrequencySleep(t)
    \/ \E t \in Callers : Started(t)
    \/ \E t \in Callers : Retune(t)
    \/ \E t \in Callers : Return(t)
    \/ \E t \in DOMAIN task : Drained(t)
    \/ \E t \in DOMAIN task : WaitClosed(t)
    \/ \E t \in DOMAIN task : Woke(t)
    \/ \E i \in RxTasks : RxStart(i)
    \/ \E i \in RxTasks : RxBlockPlain(i)
    \/ \E i \in RxTasks : RxReadError(i)
    \/ \E i \in RxTasks : RxLoop(i)
    \/ \E i \in RxTasks : RxFinally(i)
    \/ \E i \in RxTasks : RxExit(i)
    \/ \E i \in RxTasks : Cancelled(i)
    \/ PeerClose
    \/ PeerReset

Spec == Init /\ [][Next]_vars

\* ---- the receiver under fair scheduling ----

\* the ids acquisition tasks can get
RxIds == 11..(10 + MaxLifeOps)

\* a step of the call task t is in: the event loop runs every ready task,
\* and open_connection, drain, wait_closed and sleep all complete
CallStep(t) ==
    \/ ConnectCall(t) \/ OpenOk(t) \/ OpenFail(t) \/ ConnectCheck(t)
    \/ ConnectSleep(t) \/ ConnectGain(t) \/ ConnectRun(t)
    \/ DisconnectCall(t) \/ DisconnectCancel(t) \/ AwaitTask(t)
    \/ DisconnectEmit(t)
    \/ AddChannel(t) \/ SetFrequencySleep(t) \/ Started(t) \/ Retune(t)
    \/ Return(t) \/ Drained(t) \/ WaitClosed(t) \/ Woke(t)

\* a step of acquisition task i other than the completion of a read, which
\* depends on the server
LoopStep(i) ==
    /\ i \in RxTasks
    /\ \/ RxStart(i) \/ RxLoop(i) \/ RxFinally(i) \/ RxExit(i)
       \/ Cancelled(i) \/ WaitClosed(i) \/ Woke(i)

SpecFair ==
    /\ Init
    /\ [][Next]_vars
    /\ \A t \in Tasks : WF_vars(CallStep(t))
    /\ \A i \in RxIds : WF_vars(LoopStep(i))

C7_DisconnectLeavesNothingRunning ==
    /\ Returned("disconnect") =>
          /\ LiveRx = {}
          /\ sock \in {"none", "closed"}
          /\ \A o \in Registered : ~chan[o].running
    /\ disconnected => LiveRx = {}

\* C16: when open_connection fails the client is left with connected =
\* false, and that connect() call returns at once: it opens no further
\* connection, writes no frame, creates no acquisition task and does not
\* touch the running flag; a receiver none of whose connection attempts
\* succeeded is never running.
C16_FailedConnectStartsNothing ==
    /\ [][\A t \in Callers :
            (task[t].pc = "open_connection" /\ task'[t].pc = "c_check") =>
              /\ ~connected'
              /\ cpu' = t
              /\ DOMAIN task' = DOMAIN task
              /\ UNCHANGED <<wire, running, rx_task, sock, gen>>]_vars
    /\ [][\A t \in Callers :
            (cpu = t /\ task[t].pc = "c_check" /\ ~connected) =>
              /\ task'[t].pc = "return"
              /\ DOMAIN task' = DOMAIN task
              /\ UNCHANGED <<wire, running, rx_task, sock, gen, connected>>]_vars
    /\ [](gen = 0 => ~running /\ LiveRx = {} /\ wire = <<>>)

\* connect() returned on a receiver whose only connection attempt failed
C16_Witness ==
    /\ Returned("connect")
    /\ gen = 0
    /\ sock = "none"
    /\ ~connected
    /\ ~running
    /\ rx_task = 0
    /\ wire = <<>>

\* the configuration frames written so far: those of connect()
ConfigFrames ==
    SelectSeq(wire, LAMBDA f : f[1] \in {CmdSetGainMode, CmdSetSampleRate,
                                         CmdSetGain})

\* what one successful connect() writes, in its order
ConnectFrames ==
    <<Frame(CmdSetGainMode, 1, TRUE), Frame(CmdSetSampleRate, SampleRate, TRUE),
      Frame(CmdSetGain, GainTenths, TRUE)>>

\* frames q were written in this order (other frames possibly in between)
InOrder(q) ==
    \E i, j, k \in 1..Len(wire) :
       /\ i < j /\ j < k
       /\ wire[i][1] = q[1][1] /\ wire[i][2] = q[1][2]
       /\ wire[j][1] = q[2][1] /\ wire[j][2] = q[2][2]
       /\ wire[k][1] = q[3][1] /\ wire[k][2] = q[3][2]

\* C36: a connect() whose connection succeeded writes SET_GAIN_MODE(1),
\* SET_SAMPLE_RATE(sample_rate), SET_GAIN(tenths of a dB) in this order:
\* while only one connection was ever opened the configuration frames on
\* the wire are an initial part of exactly this sequence; the receiver is
\* marked running, and its acquisition task created, by a step that finds
\* all three written; and no acquisition task reads before that.
C36_ConfigureThenRun ==
    /\ [](gen = 1 =>
            /\ Len(ConfigFrames) <= 3
            /\ \A k \in 1..Len(ConfigFrames) :
                  /\ ConfigFrames[k][1] = ConnectFrames[k][1]
                  /\ ConfigFrames[k][2] = ConnectFrames[k][2])
    /\ [](gen = 1 /\ (running \/ RxTasks # {}) => Len(ConfigFrames) = 3)
    /\ [][(running' /\ ~running) \/ (RxTasks' # RxTasks) =>
            /\ InOrder(ConnectFrames)
            /\ running'
            /\ wire' = wire
            /\ \A i \in RxTasks' \ RxTasks : task'[i].pc = "start"]_vars
    /\ [](\A i \in RxTasks : task[i].pc = "read" => InOrder(ConnectFrames))

\* the only call made was a connect(): its three frames were accepted by
\* the transport in order, the receiver is running and its acquisition
\* task waits in its first read
C36_Witness ==
    /\ gen = 1
    /\ nops = 1
    /\ wire = ConnectFrames
    /\ running
    /\ connected
    /\ rx_task # 0
    /\ task[rx_task].pc = "read"
    /\ nblk = 0
    /\ \A t \in Callers : task[t].pc = "idle"

\* C17 (as claimed): at every instant at most one acquisition task of the
\* receiver is alive.
C17_OneAcquisitionTask == Cardinality(LiveRx) <= 1

\* C18 (as claimed): whenever the start() of the Channel that add_channel
\* created has returned, that Channel is RUNNING and a SET_FREQUENCY frame
\* carrying the frequency it was created with has been written.
C18_StartTunesThenRuns ==
    \A t \in Callers :
       (/\ cpu = t
        /\ task[t].pc = "return"
        /\ task[t].op = "add_channel"
        /\ task[t].obj # 0) =>
          /\ chan[task[t].obj].running
          /\ \E k \in 1..Len(wire) :
                /\ wire[k][1] = CmdSetFrequency
                /\ wire[k][2] = task[t].arg.frequency

\* C20 (as claimed): when Channel.set_frequency(hz) has returned, the
\* Channel's stored frequency is hz and the last SET_FREQUENCY frame written
\* on the receiver's connection carries hz.
C20_RetuneReachesTuner ==
    \A t \in Callers :
       (/\ cpu = t
        /\ task[t].pc = "return"
        /\ task[t].op = "retune"
        /\ task[t].obj # 0) =>
          /\ chan[task[t].obj].frequency = task[t].arg.frequency
          /\ LastFrequency = task[t].arg.frequency

-----------------------------------------------------------------------------
\* The RTL_TCP_Client on its own: a connected client whose command wrappers
\* are called by concurrent tasks.

\* commands sent on the stand-alone client
MaxCmds == 2

\* arguments of set_frequency (Hz), set_sample_rate (Hz), set_gain (in
\* hundredths of a dB) and set_ppm_correction
ClientFrequencies == {0, 1, 256, 65535, 65536, 16777215, 16777216,
                      146000000, 158992500, 2147483647}
ClientSampleRates == {250000, SampleRate}
ClientGains == {0, 2970, 2975, 4960}
ClientPpms == {0, 60}

\* a set_gain that sends whole dB
gain_val_whole_db(hundredths) == hundredths \div 100

\* int(round(gain_db * 10)), the gain given in hundredths of a dB: Python
\* rounds a tie to the even neighbour
gain_val(hundredths) ==
    LET q == hundredths \div 10
        r == hundredths % 10
    IN  IF r < 5 THEN q
        ELSE IF r > 5 THEN q + 1
        ELSE IF q % 2 = 0 THEN q ELSE q + 1

\* the opcode each wrapper passes to _send_cmd
Opcode(op) ==
    CASE op = "set_frequency" -> CmdSetFrequency
      [] op = "set_sample_rate" -> CmdSetSampleRate
      [] op = "set_gain" -> CmdSetGain
      [] op = "set_ppm_correction" -> CmdSetPpm

ClientOperations ==
    ({"set_frequency"} \X {Arg(NoValue, f) : f \in ClientFrequencies})
    \cup ({"set_sample_rate"} \X {Arg(NoValue, r) : r \in ClientSampleRates})
    \cup ({"set_gain"} \X {Arg(NoValue, g) : g \in ClientGains})
    \cup ({"set_ppm_correction"} \X {Arg(NoValue, c) : c \in ClientPpms})

ClientOps == {c[1] : c \in ClientOperations}

\* RTL_TCP_Client after connect() succeeded: SET_GAIN_MODE was sent
InitClient ==
    /\ gate = SquelchGate(-45, DefaultHysteresis)
    /\ gateLog = <<>>
    /\ chan = <<>>
    /\ channels = <<>>
    /\ running = FALSE
    /\ connected = TRUE
    /\ sock = "open"
    /\ wire = <<Frame(CmdSetGainMode, 1, TRUE)>>
    /\ gen = 1
    /\ rx_task = 0
    /\ task = [t \in Tasks |-> Idle]
    /\ cpu = 0
    /\ events = [e \in EventNames |-> 0]
    /\ nblk = 0
    /\ nops = 0
    /\ disconnected = FALSE
    /\ last = Call("init", 0, NoIQ, "none")
    /\ InitAlone

\* set_frequency, set_sample_rate, set_gain, set_ppm_correction up to the
\* await of drain inside _send_cmd; set_frequency sleeps before it returns
ClientCommand(t) ==
    /\ cpu = t
    /\ task[t].pc \in ClientOps
    /\ LET op == task[t].pc
           v  == IF op = "set_gain" THEN gain_val(task[t].arg.frequency)
                 ELSE task[t].arg.frequency
       IN  Send(t, task[t], Opcode(op), v,
                IF op = "set_frequency" THEN "retune_sleep" ELSE "return",
                "return")
    /\ last' = Step
    /\ UNCHANGED <<gateVars, aloneVars, chan, channels, running, gen, rx_task,
                   events, nblk, nops, disconnected>>

NextClient ==
    \/ \E t \in Callers, c \in ClientOperations :
          nops < MaxCmds /\ Invoke(t, c[1], c[2])
    \/ \E t \in Callers : ClientCommand(t)
    \/ \E t \in Callers : SetFrequencySleep(t)
    \/ \E t \in Callers : Return(t)
    \/ \E t \in DOMAIN task : Drained(t)
    \/ \E t \in DOMAIN task : WaitClosed(t)
    \/ \E t \in DOMAIN task : Woke(t)
    \/ PeerClose
    \/ PeerReset

SpecClient == InitClient /\ [][NextClient]_vars

\* the tasks whose command is in flight: written, its flush not completed
InFlight == {t \in DOMAIN task : task[t].pc = "drain"}

\* C11 (as claimed): at any instant at most one command is in flight on the
\* connection, between the start of its write and the completion of its
\* flush.
C11_OneCommandInFlight == Cardinality(InFlight) <= 1

\* the argument carried by four bytes, high byte first
BigEndian(b) == b[2] * 16777216 + b[3] * 65536 + b[4] * 256 + b[5]

\* C12: every command written is one 5-byte frame: the opcode byte (0x01
\* SET_FREQUENCY, 0x02 SET_SAMPLE_RATE, 0x03 SET_GAIN_MODE, 0x04 SET_GAIN,
\* 0x05 SET_PPM_CORRECTION) and the argument as four bytes, high byte first;
\* the sender is suspended until the flush ends and, the connection being
\* up, then continues after its send.
C12_FiveByteFrames ==
    /\ [](\A k \in 1..Len(wire) :
            LET b == wire[k][4] IN
            /\ Len(b) = 5
            /\ b[1] = wire[k][1]
            /\ \A j \in 2..5 : b[j] \in 0..255
            /\ BigEndian(b) = wire[k][2])
    /\ [](wire[1][1] = 3 /\ wire[1][2] = 1)
    /\ [][\A t \in Callers :
            (cpu = t /\ task[t].pc \in ClientOps) =>
              /\ Len(wire') = Len(wire) + 1
              /\ LET f == wire'[Len(wire')] IN
                 /\ task[t].pc = "set_frequency" =>
                      f[1] = 1 /\ f[2] = task[t].arg.frequency
                 /\ task[t].pc = "set_sample_rate" =>
                      f[1] = 2 /\ f[2] = task[t].arg.frequency
                 /\ task[t].pc = "set_gain" =>
                      f[1] = 4 /\ f[2] * 10 \in
                         (task[t].arg.frequency - 5)..(task[t].arg.frequency + 5)
                 /\ task[t].pc = "set_ppm_correction" =>
                      f[1] = 5 /\ f[2] = task[t].arg.frequency
              /\ task'[t].pc = "drain"
              /\ cpu' = 0]_vars
    /\ [][\A t \in Callers :
            (task[t].pc = "drain" /\ task'[t].pc # "drain") =>
              /\ cpu = 0
              /\ sock \in {"open", "eof"} => task'[t].pc = task[t].ret]_vars

\* frames of two different commands were written and flushed, the second
\* sender has returned
C12_Witness ==
    /\ Len(wire) = 3
    /\ wire[2][1] = 1 /\ wire[2][2] = 2147483647 /\ wire[2][3]
    /\ wire[3][1] = 5 /\ wire[3][3]
    /\ Returned("set_ppm_correction")

\* C29: set_gain(g) with g a non-negative whole number of tenths of a dB
\* writes exactly one frame: opcode 0x04, argument 10 g (the gain in
\* tenths), packed high byte first; the frames written before stay.
C29_GainInTenths ==
    [][\A t \in Callers :
          (/\ cpu = t
           /\ task[t].pc = "set_gain"
           /\ task[t].arg.frequency >= 0
           /\ task[t].arg.frequency % 10 = 0) =>
             /\ Len(wire') = Len(wire) + 1
             /\ SubSeq(wire', 1, Len(wire)) = wire
             /\ LET f == wire'[Len(wire')] IN
                /\ f[1] = 4
                /\ f[2] * 10 = task[t].arg.frequency
                /\ Len(f[4]) = 5
                /\ f[4][1] = 4
                /\ BigEndian(f[4]) = f[2]]_vars

\* set_gain(0) and set_gain(49.6) have written their frames, which the
\* transport accepted
C29_Witness ==
    /\ Returned("set_gain")
    /\ Len(wire) = 3
    /\ wire[2][1] = 4 /\ wire[2][2] = 0 /\ wire[2][3]
    /\ wire[3][1] = 4 /\ wire[3][2] = 496 /\ wire[3][3]

\* C13 (as claimed): the frame of SET_FREQUENCY with argument 146000000 is
\* the bytes 0x01 0x08 0xB2 0xCE 0x00.
C13_FrameBytesAsClaimed ==
    \A k \in 1..Len(wire) :
       (wire[k][1] = 1 /\ wire[k][2] = 146000000) =>
          wire[k][4] = <<1, 8, 178, 206, 0>>

\* C13 (amended): the frame of SET_FREQUENCY with argument 146000000
\* (0x08B3C880) is the bytes 0x01 0x08 0xB3 0xC8 0x80.
C13_FrameBytes ==
    \A k \in 1..Len(wire) :
       (wire[k][1] = 1 /\ wire[k][2] = 146000000) =>
          wire[k][4] = <<1, 8, 179, 200, 128>>

\* set_frequency(146000000) has written its frame
C13_Witness ==
    \E k \in 1..Len(wire) : wire[k][1] = 1 /\ wire[k][2] = 146000000

-----------------------------------------------------------------------------
\* fm_demodulate on its own: two consecutive blocks a and b of one stream
\* are demodulated with the phase carried from a into b, as the one block
\* a \o b, and each with the carried phase reset to 0.

\* the blocks: 2 to MaxSamples samples each
SampleBlocks == UNION {[1..n -> SamplePhases] : n \in 2..MaxSamples}

InitDemod ==
    /\ gate = SquelchGate(-45, DefaultHysteresis)
    /\ gateLog = <<>>
    /\ chan = <<>>
    /\ InitReceiver
    /\ status = "none"
    /\ \E a \in SampleBlocks, b \in SampleBlocks, f \in BOOLEAN :
          demod = [NoDemod EXCEPT !.a = a, !.b = b, !.interleaved = f]
    /\ detector = ToneDetector(NoValue, NoNumber)
    /\ matchLog = <<>>
    /\ bus = EventBus
    /\ managers = [r \in Receivers |-> NoManager]
    /\ files = [f \in PresetFiles |-> NoFile]

\* what Channel.process_samples does on two successive calls
DemodCarried ==
    /\ "carried" \notin demod.done
    /\ LET first  == fm_demodulate_samples(demod.a, demod.interleaved,
                                           demod.prev_phase)
           second == fm_demodulate_samples(demod.b, demod.interleaved,
                                           first[2])
       IN  demod' = [demod EXCEPT !.carried = first[1] \o second[1],
                                  !.done = @ \cup {"carried"}]
    /\ last' = Call("fm_demodulate", 0, NoIQ, "carried")
    /\ UNCHANGED <<gate, gateLog, chan, receiverVars, detector, matchLog, bus,
                   managers, files,
                   status>>

DemodJoined ==
    /\ "joined" \notin demod.done
    /\ demod' = [demod EXCEPT
                   !.joined = fm_demodulate_samples(demod.a \o demod.b,
                                 demod.interleaved, demod.prev_phase)[1],
                   !.done = @ \cup {"joined"}]
    /\ last' = Call("fm_demodulate", 0, NoIQ, "joined")
    /\ UNCHANGED <<gate, gateLog, chan, receiverVars, detector, matchLog, bus,
                   managers, files,
                   status>>

DemodReset ==
    /\ "reset" \notin demod.done
    /\ demod' = [demod EXCEPT
                   !.reset = fm_demodulate_samples(demod.a,
                                 demod.interleaved, 0)[1]
                             \o fm_demodulate_samples(demod.b,
                                 demod.interleaved, 0)[1],
                   !.done = @ \cup {"reset"}]
    /\ last' = Call("fm_demodulate", 0, NoIQ, "reset")
    /\ UNCHANGED <<gate, gateLog, chan, receiverVars, detector, matchLog, bus,
                   managers, files,
                   status>>

NextDemod ==
    \/ DemodCarried
    \/ DemodJoined
    \/ DemodReset

SpecDemod == InitDemod /\ [][NextDemod]_vars

\* C21 (as claimed): for two consecutive blocks that are each large enough
\* to be demodulated, the output with the carried phase equals the output
\* of demodulating their concatenation, and differs from the output with
\* the carried phase reset to zero.
C21_PhaseContinuity ==
    (/\ demod.done = {"carried", "joined", "reset"}
     /\ fm_demodulate_samples(demod.a, demod.interleaved, 0)[1] # <<>>
     /\ fm_demodulate_samples(demod.b, demod.interleaved, 0)[1] # <<>>) =>
       /\ demod.carried = demod.joined
       /\ demod.carried # demod.reset

-----------------------------------------------------------------------------
\* ToneDetector on its own: a detector with any tone specification, fed a
\* sequence of audio blocks.  hit tells whether the block carries the tone
\* (the Goertzel magnitude of a window taken from it exceeds the threshold).

\* None, PL with and without a tone value, DPL
DetectorSpecs == ToneSpecs \cup {<<"PL", NoNumber>>}

\* empty, loop-sized, one sample short of the window, the window
MatchSizes == {0, 8191, 23999, 24000}
\* silent and loud blocks
MatchPowers == {EmptyPower, -40}

InitTone ==
    /\ gate = SquelchGate(-45, DefaultHysteresis)
    /\ gateLog = <<>>
    /\ chan = <<>>
    /\ InitReceiver
    /\ status = "none"
    /\ demod = NoDemod
    /\ \E tone \in DetectorSpecs : detector = ToneDetector(tone[1], tone[2])
    /\ matchLog = <<>>
    /\ bus = EventBus
    /\ managers = [r \in Receivers |-> NoManager]
    /\ files = [f \in PresetFiles |-> NoFile]

Match(audio) ==
    /\ Len(matchLog) < MaxMatches
    /\ matchLog' = Append(matchLog, <<audio, match(detector, audio)>>)
    /\ last' = Call("match", 0, NoIQ, "none")
    /\ UNCHANGED <<gate, gateLog, chan, receiverVars, demod, detector, bus,
                   managers, files,
                   status>>

NextTone ==
    \E size \in MatchSizes, p \in MatchPowers, hit \in BOOLEAN :
       Match(Audio(size, IF size = 0 THEN EmptyPower ELSE p,
                   size > 0 /\ p > EmptyPower /\ hit))

SpecTone == InitTone /\ [][NextTone]_vars

\* C23: a detector without tone specification, and one with a DPL
\* specification, answers true to every match call, whatever the block:
\* empty, silent, with or without a tone.
C23_NoToneAlwaysPasses ==
    detector.tone_type \in {NoValue, "DPL"} =>
       \A i \in 1..Len(matchLog) : matchLog[i][2]

\* a detector without tone specification has answered an empty block, then
\* a silent one, then a loud one without tone
C23_Witness ==
    /\ detector.tone_type = NoValue
    /\ Len(matchLog) = 3
    /\ matchLog[1][1].size = 0
    /\ matchLog[2][1].size > 0 /\ matchLog[2][1].pwr = EmptyPower
    /\ matchLog[3][1].pwr > EmptyPower /\ ~matchLog[3][1].hit
    /\ \A i \in 1..3 : matchLog[i][2]

\* the window of the claim, in samples: half a second
Window == (ToneSampleRate * 5) \div 10

\* the samples of the calls j..i
RECURSIVE Samples(_, _)
Samples(j, i) ==
    IF j > i THEN 0 ELSE matchLog[j][1].size + Samples(j + 1, i)

\* the calls whose blocks lie, at least in part, in the window that ends
\* with the block of call i
InWindow(i) == {j \in 1..i : Samples(j + 1, i) < Window}

\* C24 (as claimed): the decision of a PL detector at its i-th match call
\* is taken over the last Window samples accumulated up to that call: once
\* that many samples have arrived it is true when all the blocks in that
\* trailing window carry the tone and false when none does.
C24_TrailingWindowAcrossCalls ==
    (detector.tone_type = "PL" /\ detector.tone_value # NoNumber) =>
       \A i \in 1..Len(matchLog) :
          Samples(1, i) >= Window =>
            /\ (\A j \in InWindow(i) : matchLog[j][1].hit) => matchLog[i][2]
            /\ (\A j \in InWindow(i) : ~matchLog[j][1].hit) => ~matchLog[i][2]

-----------------------------------------------------------------------------
\* EventBus on its own: callbacks are subscribed and events emitted.

InitBus ==
    /\ gate = SquelchGate(-45, DefaultHysteresis)
    /\ gateLog = <<>>
    /\ chan = <<>>
    /\ InitReceiver
    /\ InitAlone

\* the subscriptions made so far
Subscriptions ==
    Len(bus.subscribers["signal_update"])
      + Len(bus.subscribers["channel_added"])

BusSubscribe(e, cb) ==
    /\ Subscriptions < MaxSubs
    /\ bus' = subscribe(bus, e, cb)
    /\ last' = Call("subscribe", cb, NoIQ, e)
    /\ UNCHANGED <<gate, gateLog, chan, receiverVars, demod, detector,
                   matchLog, managers, files,
                   status>>

BusEmit(e) ==
    /\ bus' = emit_all(bus, e)
    /\ last' = Call("emit", 0, NoIQ, e)
    /\ UNCHANGED <<gate, gateLog, chan, receiverVars, demod, detector,
                   matchLog, managers, files,
                   status>>

NextBus ==
    \/ \E e \in BusEvents, cb \in Callbacks : BusSubscribe(e, cb)
    \/ \E e \in BusEvents : BusEmit(e)

SpecBus == InitBus /\ [][NextBus]_vars

\* C25: an emit raises nothing to its caller and calls every callback
\* subscribed to the event type exactly once per subscription, in
\* subscription order, also when one of them raises; the callbacks of
\* other event types are not called and no subscription is lost.
C25_EmitIsolatesSubscribers ==
    [][\A e \in BusEvents :
          (last'.op = "emit" /\ last'.fault = e) =>
            /\ ~bus'.raised
            /\ bus'.delivered = bus.subscribers[e]
            /\ bus'.subscribers = bus.subscribers]_vars

\* an event was emitted to three subscribers of which the second raises;
\* the one subscribed after it was called
C25_Witness ==
    /\ last.op = "emit"
    /\ Len(bus.delivered) = 3
    /\ bus.delivered[2] \in Raisers
    /\ bus.delivered[3] \notin Raisers
    /\ ~bus.raised

-----------------------------------------------------------------------------
\* Several receivers of one application, each with its ChannelsManager.
\* made is the history of a manager: the preset records its own add_preset
\* and remove_preset calls leave.

InitPresets ==
    /\ gate = SquelchGate(-45, DefaultHysteresis)
    /\ gateLog = <<>>
    /\ chan = <<>>
    /\ InitReceiver
    /\ InitAlone

\* SDRReceiver.__init__ -> ChannelsManager.__init__ -> load_presets
Construct(r) ==
    /\ ~managers[r].built
    /\ managers' = [managers EXCEPT
                      ![r].built = TRUE,
                      ![r].presets = load_presets(files[preset_file(r)])]
    /\ last' = Call("__init__", r, NoIQ, "none")
    /\ UNCHANGED <<gate, gateLog, chan, receiverVars, demod, detector,
                   matchLog, bus, files,
                   status>>

\* ChannelsManager.add_preset
AddPreset(r, name, frequency) ==
    /\ managers[r].built
    /\ managers' = [managers EXCEPT
                      ![r].presets = put(@, name, frequency),
                      ![r].made = put(@, name, frequency)]
    /\ files' = [files EXCEPT
                   ![preset_file(r)] = save_presets(managers'[r].presets)]
    /\ last' = Call("add_preset", r, NoIQ, name)
    /\ UNCHANGED <<gate, gateLog, chan, receiverVars, demod, detector,
                   matchLog, bus,
                   status>>

\* ChannelsManager.remove_preset
RemovePreset(r, name) ==
    /\ managers[r].built
    /\ IF \E p \in managers[r].presets : p[1] = name
       THEN /\ managers' = [managers EXCEPT ![r].presets = drop(@, name),
                                             ![r].made = drop(@, name)]
            /\ files' = [files EXCEPT
                   ![preset_file(r)] = save_presets(managers'[r].presets)]
       ELSE UNCHANGED <<managers, files>>
    /\ last' = Call("remove_preset", r, NoIQ, name)
    /\ UNCHANGED <<gate, gateLog, chan, receiverVars, demod, detector,
                   matchLog, bus,
                   status>>

NextPresets ==
    \/ \E r \in Receivers : Construct(r)
    \/ \E r \in Receivers, n \in SavedNames, f \in PresetFrequencies :
          AddPreset(r, n, f)
    \/ \E r \in Receivers, n \in SavedNames : RemovePreset(r, n)

SpecPresets == InitPresets /\ [][NextPresets]_vars

\* C26 (as claimed), for the preset records: the records a Receiver
\* observes are those its own operations made, and no operation on one
\* Receiver changes the records another Receiver holds or will load.
C26_ReceiversShareNothing ==
    /\ [](\A r \in Receivers :
            managers[r].built => managers[r].presets = managers[r].made)
    /\ [][\A r \in Receivers :
            last'.obj = r =>
              \A o \in Receivers \ {r} :
                 /\ managers'[o] = managers[o]
                 /\ files'[preset_file(o)] = files[preset_file(o)]]_vars

-----------------------------------------------------------------------------
\* RTL_TCP_Client.close called by concurrent tasks, any number of times, on
\* a client that never connected or on a connected one, next to a command.

CloseOperations ==
    ({"close"} \X {Arg(NoValue, 0)})
    \cup ({"set_sample_rate"} \X {Arg(NoValue, SampleRate)})

\* RTL_TCP_Client.__init__, or the client after connect() succeeded
InitClose ==
    /\ gate = SquelchGate(-45, DefaultHysteresis)
    /\ gateLog = <<>>
    /\ chan = <<>>
    /\ InitAlone
    /\ \/ InitReceiver
       \/ /\ channels = <<>>
          /\ running = FALSE
          /\ connected = TRUE
          /\ sock = "open"
          /\ wire = <<Frame(CmdSetGainMode, 1, TRUE)>>
          /\ gen = 1
          /\ rx_task = 0
          /\ task = [t \in Tasks |-> Idle]
          /\ cpu = 0
          /\ events = [e \in EventNames |-> 0]
          /\ nblk = 0
          /\ nops = 0
          /\ disconnected = FALSE
          /\ last = Call("init", 0, NoIQ, "none")

\* RTL_TCP_Client.close called from outside
ClientClose(t) ==
    /\ cpu = t
    /\ task[t].pc = "close"
    /\ Close(t, task[t], "return")
    /\ last' = Step
    /\ UNCHANGED <<gateVars, aloneVars, chan, channels, running, wire, gen,
                   rx_task, events, nblk, nops, disconnected>>

NextClose ==
    \/ \E t \in Callers, c \in CloseOperations :
          nops < MaxCloses /\ Invoke(t, c[1], c[2])
    \/ \E t \in Callers : ClientClose(t)
    \/ \E t \in Callers : ClientCommand(t)
    \/ \E t \in Callers : Return(t)
    \/ \E t \in DOMAIN task : Drained(t)
    \/ \E t \in DOMAIN task : WaitClosed(t)
    \/ PeerClose
    \/ PeerReset

SpecClose == InitClose /\ [][NextClose]_vars

\* the client is closed: not connected, its transport (if it ever had one)
\* closed
Closed == ~connected /\ sock \in {"none", "closed"}

\* C28: whenever close() returns the client is closed, whatever state it
\* was called in; and on a closed client no step of a further close()
\* changes the client: it stays closed, no frame is written, no connection
\* is opened.  (close has no path on which it raises.)
C28_CloseIsIdempotent ==
    /\ [](Returned("close") => Closed)
    /\ [][\A t \in Callers :
            (Closed /\ task[t].op = "close" /\ task'[t] # task[t]) =>
               /\ Closed'
               /\ UNCHANGED <<sock, connected, wire, gen>>]_vars

\* three calls were made on a connected client, all of them close; the
\* last has returned
C28_Witness ==
    /\ Returned("close")
    /\ gen = 1
    /\ nops = 3
    /\ Len(wire) = 1
    /\ Closed

-----------------------------------------------------------------------------
\* RTL_TCP_Client whose commands fail: an argument struct.pack rejects, a
\* connection that was reset, a client that never had a socket.

\* gains in hundredths of a dB, one of them negative
FailGains == {-100, 2970}

FailOperations ==
    ({"set_gain"} \X {Arg(NoValue, g) : g \in FailGains})
    \cup ({"set_frequency"} \X {Arg(NoValue, 146000000)})

NextFail ==
    \/ \E t \in Callers, c \in FailOperations :
          nops < MaxFails /\ Invoke(t, c[1], c[2])
    \/ \E t \in Callers : ClientCommand(t)
    \/ \E t \in Callers : SetFrequencySleep(t)
    \/ \E t \in Callers : Return(t)
    \/ \E t \in DOMAIN task : Drained(t)
    \/ \E t \in DOMAIN task : WaitClosed(t)
    \/ \E t \in DOMAIN task : Woke(t)
    \/ PeerClose
    \/ PeerReset

SpecFail == InitClose /\ [][NextFail]_vars

\* the argument the wrapper of task t hands to _send_cmd
SentValue(t) ==
    IF task[t].pc = "set_gain" THEN gain_val(task[t].arg.frequency)
    ELSE task[t].arg.frequency

\* the continuation of command op after its _send_cmd
After(op) == IF op = "set_frequency" THEN "retune_sleep" ELSE "return"

RECURSIVE Written(_)
Written(q) == IF q = <<>> THEN <<>> ELSE q[1][4] \o Written(Tail(q))

\* C34: with two tasks sending commands concurrently (one may write while
\* the other's flush is pending), the bytes written are a concatenation of
\* whole 5-byte frames: the k-th group of five bytes is the packet of the
\* k-th command written, and every step either writes nothing or appends
\* exactly the five bytes of one command.
C34_WholeFramesOnly ==
    /\ [](Len(Written(wire)) = 5 * Len(wire))
    /\ [](\A k \in 1..Len(wire) :
            SubSeq(Written(wire), 5 * k - 4, 5 * k)
               = pack(wire[k][1], wire[k][2]))
    /\ [][\/ Written(wire') = Written(wire)
          \/ \E t \in Callers :
                /\ cpu = t
                /\ task[t].pc \in ClientOps
                /\ Written(wire')
                     = Written(wire) \o pack(Opcode(task[t].pc), SentValue(t))
                /\ Len(Written(wire')) = Len(Written(wire)) + 5]_vars

\* the commands of both tasks are in flight at the same time, the second
\* written while the flush of the first was pending
C34_Witness ==
    /\ Cardinality(InFlight) = 2
    /\ Len(wire) = 3
    /\ Len(Written(wire)) = 15
    /\ wire[2][1] = CmdSetFrequency
    /\ wire[3][1] = CmdSetGain

-----------------------------------------------------------------------------
\* A streaming receiver tuned with set_channel to the preset that carries an
\* analog (PL) tone, while every block the loop reads is strong and carries
\* that tone throughout.

PLOperations == {"set_channel"} \X {Arg("b", 0)}

\* the loop reads a block of buffer_size bytes with the tone in it and
\* feeds it to the channels
RxTone(i) ==
    /\ cpu = 0
    /\ task[i].pc = "read"
    /\ ~task[i].cancel
    /\ CanRead(i)
    /\ nblk < MaxToneBlocks
    /\ nblk' = nblk + 1
    /\ events' = emit("signal_update")
    /\ LET iq == IQ(BufferSize, -40, TRUE, 1) IN
         /\ chan' = feed(chan, channels, iq, nblk + 1,
                         [k \in 1..Len(channels) |-> "none"])
         /\ last' = Call("feed", 0, iq, "none")
    /\ RxLoopHead(i, task[i])
    /\ UNCHANGED <<gateVars, aloneVars, channels, running, connected, sock,
                   wire, gen, rx_task, nops, disconnected>>

NextPL ==
    \/ \E t \in Callers, c \in PLOperations :
          nops < MaxTunes /\ Invoke(t, c[1], c[2])
    \/ \E t \in Callers : SetChannel(t)
    \/ \E t \in Callers : SetFrequencySleep(t)
    \/ \E t \in Callers : Started(t)
    \/ \E t \in Callers : Return(t)
    \/ \E t \in DOMAIN task : Drained(t)
    \/ \E t \in DOMAIN task : Woke(t)
    \/ \E i \in RxTasks : RxStart(i)
    \/ \E i \in RxTasks : RxTone(i)

SpecPL == InitStreaming /\ [][NextPL]_vars

\* audio samples one block of the loop demodulates to
BlockAudio == (BufferSize \div 2) - 1

\* the number of loop blocks whose audio covers the detector's window
WindowBlocks == (Window + BlockAudio - 1) \div BlockAudio

\* C37 (as claimed): a RUNNING Channel with an analog tone opens when the
\* loop feeds it: once it has been fed tone-bearing blocks of 16384 bytes
\* covering the detector's window, its tone gate has matched and audio was
\* written to its sink.
C37_ToneChannelOpens ==
    \A o \in Registered :
       (/\ chan[o].running
        /\ chan[o].tone.tone_type = "PL"
        /\ Len(chan[o].seen) >= WindowBlocks) =>
          chan[o].audio.played > 0

-----------------------------------------------------------------------------
\* DeviceManager.attach_tcp with auto_connect: the receiver is registered and
\* a task is created that connects it and reports the outcome.

\* attach_tcp for a name not yet registered: the server entry is made with
\* status "found", receiver_created is emitted and the task _try_connect
\* is created; it begins with "await receiver.connect()"
AttachTcp(t) ==
    /\ cpu = 0
    /\ task[t].pc = "idle"
    /\ status = "none"
    /\ status' = "found"
    /\ events' = emit("receiver_created")
    /\ task' = [task EXCEPT ![t] = [Idle EXCEPT !.pc = "connect",
                                                !.op = "_try_connect"]]
    /\ cpu' = t
    /\ nops' = nops + 1
    /\ last' = Call("call", 0, NoIQ, "attach_tcp")
    /\ UNCHANGED <<gateVars, demod, detector, matchLog, bus, managers, files,
                   chan, channels, running, connected, sock, wire, gen,
                   rx_task, nblk, disconnected>>

\* receiver.connect() has returned to _try_connect (it has no path on which
\* it raises, so the except clause is never entered): the status is set to
\* "connected", receiver_connected and channel_presets_updated are emitted
TryConnected(t) ==
    /\ cpu = t
    /\ task[t].pc = "return"
    /\ task[t].op = "_try_connect"
    /\ status' = "connected"
    /\ events' = [events EXCEPT !["receiver_connected"] = @ + 1,
                                !["channel_presets_updated"] = @ + 1]
    /\ task' = [task EXCEPT ![t] = Idle]
    /\ cpu' = 0
    /\ last' = Call("return", 0, NoIQ, "_try_connect")
    /\ UNCHANGED <<gateVars, demod, detector, matchLog, bus, managers, files,
                   chan, channels, running, connected, sock, wire, gen,
                   rx_task, nblk, nops, disconnected>>

NextAttach ==
    \/ \E t \in Callers : AttachTcp(t)
    \/ \E t \in Callers : ConnectCall(t)
    \/ \E t \in Callers : OpenOk(t)
    \/ \E t \in Callers : OpenFail(t)
    \/ \E t \in Callers : ConnectCheck(t)
    \/ \E t \in Callers : ConnectSleep(t)
    \/ \E t \in Callers : ConnectGain(t)
    \/ \E t \in Callers : ConnectRun(t)
    \/ \E t \in Callers : TryConnected(t)
    \/ \E t \in DOMAIN task : Drained(t)
    \/ \E t \in DOMAIN task : WaitClosed(t)
    \/ \E t \in DOMAIN task : Woke(t)
    \/ \E i \in RxTasks : RxStart(i)
    \/ \E i \in RxTasks : RxBlockPlain(i)
    \/ \E i \in RxTasks : RxReadError(i)
    \/ \E i \in RxTasks : RxLoop(i)
    \/ \E i \in RxTasks : RxFinally(i)
    \/ \E i \in RxTasks : RxExit(i)
    \/ PeerClose
    \/ PeerReset

SpecAttach == Init /\ [][NextAttach]_vars

\* C39 (as claimed): receiver_connected is emitted, and the server status
\* set to "connected", only for a receiver whose connection succeeded: its
\* client is connected and its acquisition task was started.
C39_ConnectedOnlyOnSuccess ==
    [][(\/ events'["receiver_connected"] > events["receiver_connected"]
        \/ status' = "connected" /\ status # "connected") =>
          /\ connected
          /\ rx_task # 0]_vars

-----------------------------------------------------------------------------
\* A streaming receiver on which set_channel is called from concurrent
\* tasks (the UI starts every call with asyncio.create_task), with known
\* presets only.

TuneOperations == {"set_channel"} \X {Arg(n, 0) : n \in DOMAIN PresetStore}

InitTune ==
    /\ gate = SquelchGate(-45, DefaultHysteresis)
    /\ gateLog = <<>>
    /\ chan = <<>>
    /\ channels = <<>>
    /\ running = TRUE
    /\ connected = TRUE
    /\ sock = "open"
    /\ wire = <<Frame(CmdSetGainMode, 1, TRUE),
                 Frame(CmdSetSampleRate, SampleRate, TRUE),
                 Frame(CmdSetGain, GainTenths, TRUE)>>
    /\ gen = 1
    /\ rx_task = 11
    /\ task = [i \in Tasks \cup {11} |->
                 IF i = 11 THEN [Idle EXCEPT !.pc = "start", !.op = "_rx_loop"]
                 ELSE Idle]
    /\ cpu = 0
    /\ events = [e \in EventNames |-> 0]
    /\ nblk = 0
    /\ nops = 0
    /\ disconnected = FALSE
    /\ last = Call("init", 0, NoIQ, "none")
    /\ InitAlone

NextTune ==
    \/ \E t \in Callers, c \in TuneOperations :
          nops < MaxTunes /\ Invoke(t, c[1], c[2])
    \/ \E t \in Callers : SetChannel(t)
    \/ \E t \in Callers : SetFrequencySleep(t)
    \/ \E t \in Callers : Started(t)
    \/ \E t \in Callers : Return(t)
    \/ \E t \in DOMAIN task : Drained(t)
    \/ \E t \in DOMAIN task : Woke(t)
    \/ \E i \in RxTasks : RxStart(i)
    \/ \E i \in RxTasks : RxBlock(i)

SpecTune == InitTune /\ [][NextTune]_vars

\* every call made so far has returned
Quiet == ~Busy

\* C31: once all the concurrent set_channel calls (known presets, running
\* receiver) have returned, the channel map holds exactly one Channel, it
\* is RUNNING, and the last SET_FREQUENCY frame written carries its
\* frequency.
C31_ConcurrentTuneLeavesOne ==
    (Quiet /\ nops > 0) =>
       /\ Len(channels) = 1
       /\ chan[channels[1]].running
       /\ LastFrequency = chan[channels[1]].frequency
       /\ PresetStore[chan[channels[1]].id].frequency = LastFrequency

\* three overlapping calls have returned; a Channel that was replaced while
\* its start() was suspended has been marked RUNNING outside the map
C31_Witness ==
    /\ Quiet
    /\ nops = 3
    /\ Len(chan) = 3
    /\ \E o \in DOMAIN chan : o \notin Registered /\ chan[o].running
    /\ chan[channels[1]].running

====
